---------------------------- MODULE Spec2Model ----------------------------
(***************************************************************************)
(* A model of @kanopi/wp-ai-indexer: the bounded concurrency executor      *)
(* (utils.ts processWithConcurrency), the pipeline orchestrator            *)
(* (indexer.ts index / clean), the vector store gateway (pinecone.ts) and  *)
(* the content fetcher (wordpress.ts).                                     *)
(*                                                                         *)
(* Promises are modelled by their state ("pending", "fulfilled",           *)
(* "rejected"); an await is a program position (a value of a pc variable)  *)
(* that is left by an action enabled once the awaited promise has settled. *)
(* Every specification below constrains all variables: the groups it does  *)
(* not use stay at their idle value.                                       *)
(***************************************************************************)
EXTENDS Integers, Sequences, FiniteSets, TLC

\* ------------------------------------------------------------------------
\* Bounds of the model
\* ------------------------------------------------------------------------

\* items.length of a processWithConcurrency call is at most MaxItems.
MaxItems == 4

\* The concurrency argument of processWithConcurrency ranges over 1..MaxConcurrency.
MaxConcurrency == 3

\* The number of index() calls a behaviour of SpecIndex makes is at most MaxRuns.
MaxRuns == 2

\* config.concurrency of an Indexer ranges over 0 (not set) .. MaxConfigConcurrency.
MaxConfigConcurrency == 2

\* settings.chunk_size and settings.chunk_overlap, scaled down to the length
\* of the texts of the model.
ChunkSize == 5
ChunkOverlap == 1

\* The page size of listPaginated (limit: 100 in the source) and the batch
\* size of deleteByVectorIds (1000 in the source), scaled down to the number
\* of vectors of the model.
ListLimit == 2
DeleteBatchSize == 2

\* The clock (Date.now()) advances in ticks, up to MaxTime.
MaxTime == 5

\* The number of callers that use one CircuitBreaker concurrently.
MaxCallers == 2

\* failureThreshold and resetTimeout of the CircuitBreaker (5 and 60000 ms in
\* embeddings.ts), scaled down; resetTimeout is in ticks.
FailureThreshold == 2
ResetTimeout == 2

\* failureCount is followed up to MaxFailureCount.
MaxFailureCount == 4

\* RateLimiter: one tick of the clock is the 100 ms polling delay of
\* acquire(); capacity in tokens and refillRate in tokens per tick, scaled
\* down; acquire(n) is called with n in 0 .. MaxTokensNeeded.
Capacity == 2
RefillPerTick == 1
MaxTokensNeeded == 2

\* A RateLimiter is followed for MaxLimiterTime ticks.
MaxLimiterTime == 3

\* The maxRetries argument of retryWithBackoff ranges over 0 .. MaxMaxRetries.
MaxMaxRetries == 3

\* An EmbeddingsManager is followed for MaxEmbedTime ticks of 5000 ms.
MaxEmbedTime == 13

\* createEmbeddings is called with at most MaxTexts texts and a batch_size
\* setting of at most MaxBatchSize.
MaxTexts == 4
MaxBatchSize == 2

\* A post type has at most MaxPages pages of posts.
MaxPages == 6

\* chunkContent is applied to texts of at most MaxContentLen characters.
MaxContentLen == 10

\* The largest post id and chunk index a vector id is built from.
MaxPostId == 11
MaxChunkIndex == 10

\* upsertVectors: the batch size (100 in pinecone.ts), the concurrent
\* callers, the vectors of one call and the calls made.
UpsertBatchSize == 2
MaxUpsertCallers == 2
MaxVectors == 3
MaxUpsertCalls == 2

\* ------------------------------------------------------------------------
\* State
\* ------------------------------------------------------------------------

VARIABLES
  \* --- processWithConcurrency (utils.ts) ---
  items,        \* items.length; the items are identified by their index 0..items-1
  concurrency,  \* the concurrency argument
  i,            \* the loop variable of the for loop
  pwcPc,        \* position: "idle" | "loop" | "race" | "all" | "returned" | "rejected"
  processor,    \* index -> state of the promise returned by processor(item, index)
  promise,      \* index -> state of the promise processor(..).then(..).catch(..)
  results,      \* index -> the slot results[index]
  executing,    \* the array `executing`, as the sequence of the indices of its promises
  \* --- the vector store (one index, one namespace) ---
  store,        \* the set of stored vectors [id, domain, post_id, chunk_index]
  \* --- Indexer.index (indexer.ts) ---
  idxPc,        \* "idle" | "settings" | "initialize" | "fetch" | "process" | "stats" | "returned"
  site,         \* the site (host of config.wpApiBase) of the Indexer whose index() runs
  configConcurrency,  \* config.concurrency of that Indexer (0: not set)
  allPosts,     \* the array allPosts
  errors,       \* the array errors of the running index() call
  progress,     \* site -> this.progress of the Indexer of that site
  result,       \* the IndexingResult returned by the last index() call
  runs,         \* the number of index() calls made so far
  upserted,     \* history: the ids upserted since the running index() call began
  lastRun,      \* history: what the last returned index() call saw and left
  prevRun,      \* history: the same for the call before it
  \* --- the content source ---
  published,    \* site -> the ids of the posts of the site that are published
  \* --- Indexer.clean / Indexer.deleteAll (indexer.ts, pinecone.ts) ---
  cleanPc,      \* "idle" | "settings" | "initialize" | "fetch" | "stats" | "list" |
                \* "fetchMeta" | "delete" | "statsAfter" | "done" | "failed"
  cleanOp,      \* "clean" | "deleteAll"
  cleanSite,    \* the site of the Indexer whose clean() or deleteAll() runs
  cleanDeleted, \* settings.clean_deleted of that site
  wpPostIds,    \* the set wpPostIds
  paginationToken,  \* listVectorIdsForDomain: the offset the token stands for
  pageIds,      \* listVectorIdsForDomain: vectorIdsToFetch of the listed page
  vectorIds,    \* listVectorIdsForDomain: the array vectorIds
  toDelete,     \* deleteByVectorIds: the ids not yet passed to deleteMany
  deleted,      \* history: the vectors deleteMany has removed
  passed,       \* history: the ids passed to deleteMany
  store0,       \* history: the store when the operation was called
  \* --- the clock ---
  now,          \* Date.now(), in ticks
  \* --- CircuitBreaker (utils.ts) ---
  cbState,      \* this.state: "closed" | "open" | "half-open"
  failureCount, \* this.failureCount
  lastFailureTime,  \* this.lastFailureTime
  call,         \* caller -> its execute() call: "none" | "running" | "returned" |
                \* "threw" (fn's error) | "rejectedOpen" ('Circuit breaker is open')
  admitted,     \* history: caller -> this.state when its call arrived, "probe" for
                \* the call that moved the breaker from open to half-open
  blocked,      \* history: caller -> its call arrived with failureCount at the
                \* threshold and less than resetTimeout after the last failure
  failureStreak, \* history: the completed calls that failed since the last one
                 \* that succeeded (counted up to FailureThreshold)
  \* --- RateLimiter (utils.ts) ---
  tokens,       \* this.tokens
  lastRefill,   \* this.lastRefill
  acq,          \* caller -> its acquire() call: [pc: "none" | "waiting" | "granted",
                \* n: tokensNeeded, wakeAt: when its delay() timer fires]
  grants,       \* history: tick -> the tokens granted at that tick
  \* --- retryWithBackoff (utils.ts) ---
  retryPc,      \* "idle" | "calling" (await fn()) | "sleeping" (await setTimeout) |
                \* "returned" | "threw"
  maxRetries,   \* the maxRetries argument
  attempt,      \* the loop variable attempt
  lastError,    \* the variable lastError: [status, code]
  retryOutcome, \* the value returned or the error thrown by retryWithBackoff
  invocations,  \* history: the number of times fn was invoked
  \* --- EmbeddingsManager.createEmbedding (embeddings.ts) ---
  embPc,        \* "idle" | "rateLimit" (await this.rateLimit()) |
                \* "api" (await openai.embeddings.create inside execute) |
                \* "cooldown" (await delay(5000)) | "backoff" (await delay(retry delay)) |
                \* "returned" | "threw"
  retryCount,   \* the retryCount argument of the running createEmbeddingWithRetry
  embError,     \* the error caught by the running attempt: [message, status, code]
  wakeAt,       \* the tick at which the delay(5000) timer is due
  apiCalls,     \* history: requests sent to the embedding API by this call
  apiErrors,    \* history: the failures of those requests
  openRejections, \* history: attempts of this call rejected by the open breaker
  \* --- EmbeddingsManager.createEmbeddings (embeddings.ts) ---
  cePc,         \* "idle" | "loop" | "race" (await Promise.race) |
                \* "all" (await Promise.all) | "returned" | "rejected"
  ceTexts,      \* texts.length; the texts are 1 .. ceTexts
  ceBatchSize,  \* maxBatchSize
  ceI,          \* the loop variable i of processBatchesWithConcurrency
  ceResults,    \* results: batch index -> NoEmbeddings (a hole) or the embeddings
  ceExecuting,  \* executing: the batch indices whose promise it holds
  ceReturn,     \* the array createEmbeddings returned
  grpPc,        \* per batch, createBatchEmbeddings: "unstarted" | "rateLimit" |
                \* "request" | "fallback" | "fulfilled" | "rejected"
  grpEmbeddings, \* per batch: the embeddings collected by the fallback loop
  grpCause,     \* history, per batch: why the fallback started ("none" if it did not)
  grpCalls,     \* history, per batch: the texts createEmbedding was called with
  \* --- WordPressClient.fetchAllPosts (wordpress.ts) ---
  fPc,          \* "idle" | "first" (await fetchPostsPageWithHeaders) | "loop" |
                \* "race" (await Promise.race) | "delay" (await delay(50)) |
                \* "all" (await Promise.all) | "done"
  totalPagesOf, \* per post type: the number of pages of posts the site has
  fType,        \* the position of postType in postTypes
  fI,           \* the loop variable i of fetchPagesWithConcurrency
  fExecuting,   \* executing: the pages whose promise it holds
  request,      \* per post type and page: "unsent" | "pending" | "ok" | "failed"
  yielded,      \* the documents yielded so far, in order
  \* --- Chunker.chunkContent applied to a text (chunking.ts) ---
  chPc,         \* "input" (the text is being written) | "done"
  chText,       \* the argument content
  chOverlap,    \* settings.chunk_overlap (settings.chunk_size is ChunkSize)
  chOut,        \* what the call did: [chunks, terminated]
  \* --- createVectorId and clean()'s id pattern (pinecone.ts, indexer.ts) ---
  vidPc,        \* "idle" | "created" | "parsed"
  vidPair,      \* <<postId, chunkIndex>> of the last createVectorId call
  vidId,        \* the id it returned
  vidParsed,    \* what clean() made of the id: [matched, postId]
  vidPrev,      \* the pair and the id of the call before: [pair, id]
  \* --- SettingsManager.fetchSettings (settings.ts) ---
  setPc,        \* "idle" | "fetching" | "returned" | "thrown"
  setData,      \* response.data of the request of the call, once it arrived
  cachedSettings, \* this.cachedSettings
  setReturn,    \* what the last call returned
  \* --- PineconeManager.upsertVectors (pinecone.ts) ---
  upPc,         \* per caller: "idle" | "acquiring" | "upserting" | "sleeping"
                \*             | "done" | "rejected"
  upVectors,    \* per caller: the argument vectors
  upI,          \* per caller: the loop index i (from 0)
  upAttempt,    \* per caller: attempt of retryWithBackoff
  upAccepted,   \* per caller: the batches of the call the store accepted
  acceptedBefore, \* vectors the store accepted in the calls that were replaced
  upsertCount,  \* this.upsertCount
  upCalls,      \* upsertVectors calls made
  \* --- index() and clean() runs of one site whose posts are edited ---
  rxPc,         \* "idle" | "edited" | "indexed" | "cleaned": what happened last
  rxText,       \* post id -> the current content of the post
  rxLive,       \* the ids of the published posts
  rxDeleted     \* history: the vectors the last clean() deleted

pwcVars == <<items, concurrency, i, pwcPc, processor, promise, results, executing>>

indexVars == <<idxPc, site, configConcurrency, allPosts, errors, progress, result,
               runs, upserted, lastRun, prevRun>>

cleanVars == <<cleanPc, cleanOp, cleanSite, cleanDeleted, wpPostIds, paginationToken,
               pageIds, vectorIds, toDelete, deleted, passed, store0>>

breakerVars == <<cbState, failureCount, lastFailureTime, call, admitted, blocked,
                 failureStreak>>

limiterVars == <<tokens, lastRefill, acq, grants>>

retryVars == <<retryPc, maxRetries, attempt, lastError, retryOutcome, invocations>>

embedVars == <<embPc, retryCount, embError, wakeAt, apiCalls, apiErrors, openRejections>>

batchVars == <<cePc, ceTexts, ceBatchSize, ceI, ceResults, ceExecuting, ceReturn,
               grpPc, grpEmbeddings, grpCause, grpCalls>>

\* The components added after the utilities.
fetchVars == <<fPc, totalPagesOf, fType, fI, fExecuting, request, yielded>>

chunkVars == <<chPc, chText, chOverlap, chOut>>

idVars == <<vidPc, vidPair, vidId, vidParsed, vidPrev>>

settingsVars == <<setPc, setData, cachedSettings, setReturn>>

upsertVars == <<upPc, upVectors, upI, upAttempt, upAccepted, acceptedBefore,
                upsertCount, upCalls>>

reindexVars == <<rxPc, rxText, rxLive, rxDeleted>>

lateVars == <<idVars, settingsVars, upsertVars, reindexVars>>

extVars == <<batchVars, fetchVars, chunkVars, lateVars>>

coreUtilVars == <<now, breakerVars, limiterVars, retryVars, embedVars>>

utilVars == <<coreUtilVars, extVars>>

vars == <<pwcVars, store, indexVars, published, cleanVars, utilVars>>

\* What the steps of one component leave unchanged.
notPwc == <<store, indexVars, published, cleanVars, utilVars>>
notIndex == <<published, cleanVars, utilVars>>
notClean == <<pwcVars, indexVars, utilVars>>
notUtil == <<pwcVars, store, indexVars, published, cleanVars>>
notBreaker == <<notUtil, limiterVars, retryVars, embedVars, extVars>>
notLimiter == <<notUtil, breakerVars, retryVars, embedVars, extVars>>
notRetry == <<notUtil, now, breakerVars, limiterVars, embedVars, extVars>>
notEmbed == <<notUtil, limiterVars, retryVars, call, admitted, blocked,
              failureStreak, extVars>>
notBatch == <<notUtil, coreUtilVars, fetchVars, chunkVars, lateVars>>
notFetch == <<notUtil, coreUtilVars, batchVars, chunkVars, lateVars>>
notChunk == <<notUtil, coreUtilVars, batchVars, fetchVars, lateVars>>
notLate == <<notUtil, coreUtilVars, batchVars, fetchVars, chunkVars>>
notId == <<notLate, settingsVars, upsertVars, reindexVars>>
notSettings == <<notLate, idVars, upsertVars, reindexVars>>
notUpsert == <<notLate, idVars, settingsVars, reindexVars>>
notReindex == <<pwcVars, indexVars, published, cleanVars, coreUtilVars, batchVars,
                fetchVars, chunkVars, idVars, settingsVars, upsertVars>>

\* ------------------------------------------------------------------------
\* processWithConcurrency
\* ------------------------------------------------------------------------

\* An array slot that was never assigned (new Array(n) holds only holes).
Undefined == [status |-> "undefined", value |-> 0, reason |-> ""]

\* What a processor may settle with: a value or a reason.  A value is a
\* number: 0 stands for a falsy value (null), n > 0 for a truthy one.
Values == {0, 1}
Reasons == {"err"}

Fulfilled(v) == [status |-> "fulfilled", value |-> v, reason |-> ""]
Rejected(r) == [status |-> "rejected", value |-> 0, reason |-> r]

Outcomes == {Fulfilled(v) : v \in Values} \cup {Rejected(r) : r \in Reasons}

Indices == 0 .. (MaxItems - 1)

\* The handlers attached to processor(item, i): what they store in results[i]
\* and how the promise they return settles.  Without the catch handler a
\* rejection would be stored nowhere and would reject the chained promise.
SettleHandlersNoCatch(outcome) ==
  IF outcome.status = "fulfilled"
    THEN [slot |-> outcome, promise |-> "fulfilled"]
    ELSE [slot |-> Undefined, promise |-> "rejected"]

\* .then(value => results[i] = {fulfilled, value})
\* .catch(reason => results[i] = {rejected, reason}): the chained promise
\* always fulfils, and the slot records the outcome.
SettleHandlers(outcome) ==
  [slot |-> outcome, promise |-> "fulfilled"]

\* The call: results = new Array(items.length), executing = [], i = 0.
PwcCall(n, c) ==
  /\ pwcPc \in {"idle", "returned", "rejected"}
  /\ items' = n
  /\ concurrency' = c
  /\ i' = 0
  /\ pwcPc' = "loop"
  /\ processor' = [k \in Indices |-> "unstarted"]
  /\ promise' = [k \in Indices |-> "none"]
  /\ results' = [k \in Indices |-> Undefined]
  /\ executing' = <<>>

\* One pass of the loop body up to the await (or to the end of the body when
\* the window is not full): processor(item, i) is invoked, its chained
\* promise is pushed on executing.
PwcStart ==
  /\ pwcPc = "loop"
  /\ i < items
  /\ processor' = [processor EXCEPT ![i] = "pending"]
  /\ promise' = [promise EXCEPT ![i] = "pending"]
  /\ executing' = Append(executing, i)
  /\ IF Len(executing') >= concurrency
       THEN pwcPc' = "race" /\ i' = i
       ELSE pwcPc' = "loop" /\ i' = i + 1
  /\ UNCHANGED <<items, concurrency, results>>

\* The in-flight processor of item k settles with outcome; its handlers run.
PwcSettle(k, outcome) ==
  /\ k \in 0 .. (items - 1)
  /\ processor[k] = "pending"
  /\ processor' = [processor EXCEPT ![k] = outcome.status]
  /\ results' = [results EXCEPT ![k] = SettleHandlers(outcome).slot]
  /\ promise' = [promise EXCEPT ![k] = SettleHandlers(outcome).promise]
  /\ UNCHANGED <<items, concurrency, i, pwcPc, executing>>

\* The indices of executing whose promise has settled.
SettledIn(exec) == {k \in 1 .. Len(exec) : promise[exec[k]] # "pending"}

\* The findIndex of the forEach body: is some slot of the window
\* i - executing.length + 1 .. i filled?
WindowHasResult ==
  \E itemIdx \in 0 .. (items - 1) :
     /\ itemIdx >= i - Len(executing) + 1
     /\ itemIdx <= i
     /\ results[itemIdx] # Undefined

\* executing.splice(0, 1) when completedIndices is not empty.
SpliceCompleted(exec) ==
  IF WindowHasResult THEN Tail(exec) ELSE exec

\* await Promise.race(executing) resumes: the race settles as a settled
\* promise of executing did.  A rejected one makes the await throw, and the
\* call reject; otherwise the first promise is spliced and the loop goes on.
PwcRaceResume ==
  /\ pwcPc = "race"
  /\ \E k \in SettledIn(executing) :
       IF promise[executing[k]] = "rejected"
         THEN /\ pwcPc' = "rejected"
              /\ UNCHANGED <<i, executing>>
         ELSE /\ executing' = SpliceCompleted(executing)
              /\ i' = i + 1
              /\ pwcPc' = "loop"
  /\ UNCHANGED <<items, concurrency, processor, promise, results>>

\* The loop ends; the call reaches await Promise.all(executing).
PwcLoopExit ==
  /\ pwcPc = "loop"
  /\ i >= items
  /\ pwcPc' = "all"
  /\ UNCHANGED <<items, concurrency, i, processor, promise, results, executing>>

\* await Promise.all(executing) resumes: it rejects as soon as one promise of
\* executing has rejected, and fulfils once all have fulfilled; then
\* `return results`.
PwcAllResume ==
  /\ pwcPc = "all"
  /\ IF \E k \in 1 .. Len(executing) : promise[executing[k]] = "rejected"
       THEN pwcPc' = "rejected"
       ELSE /\ \A k \in 1 .. Len(executing) : promise[executing[k]] = "fulfilled"
            /\ pwcPc' = "returned"
  /\ UNCHANGED <<items, concurrency, i, processor, promise, results, executing>>

PwcIdle ==
  /\ items = 0
  /\ concurrency = 1
  /\ i = 0
  /\ pwcPc = "idle"
  /\ processor = [k \in Indices |-> "unstarted"]
  /\ promise = [k \in Indices |-> "none"]
  /\ results = [k \in Indices |-> Undefined]
  /\ executing = <<>>

\* The locals of a call that has returned are gone.
PwcDiscard ==
  /\ items' = 0
  /\ concurrency' = 1
  /\ i' = 0
  /\ pwcPc' = "idle"
  /\ processor' = [k \in Indices |-> "unstarted"]
  /\ promise' = [k \in Indices |-> "none"]
  /\ results' = [k \in Indices |-> Undefined]
  /\ executing' = <<>>

\* The number of processor invocations started and not yet settled.
InFlight == Cardinality({k \in Indices : processor[k] = "pending"})

\* ------------------------------------------------------------------------
\* Text: a string is the sequence of its characters.  Three characters stand
\* for the classes the code distinguishes: "a" (any other character), " "
\* (whitespace, \s) and "." (sentence punctuation, [.!?]).
\* ------------------------------------------------------------------------

Min(a, b) == IF a < b THEN a ELSE b
Max(a, b) == IF a > b THEN a ELSE b

IsSpace(ch) == ch = " "
IsSentenceEnd(ch) == ch = "."

\* String.prototype.slice(from, to): negative arguments count from the end,
\* both are clamped to the string.
Slice(s, from, to) ==
  LET n == Len(s)
      a == IF from < 0 THEN Max(n + from, 0) ELSE Min(from, n)
      b == IF to < 0 THEN Max(n + to, 0) ELSE Min(to, n)
  IN  IF a >= b THEN <<>> ELSE SubSeq(s, a + 1, b)

\* String.prototype.trim()
Trim(s) ==
  LET keep == {k \in 1 .. Len(s) : ~IsSpace(s[k])}
  IN  IF keep = {} THEN <<>>
      ELSE SubSeq(s, CHOOSE k \in keep : \A j \in keep : k <= j,
                     CHOOSE k \in keep : \A j \in keep : k >= j)

\* content.replace(/\s+/g, ' '): every run of whitespace becomes one space.
CollapseWhitespace(s) ==
  LET F[k \in 0 .. Len(s)] ==
        IF k = 0 THEN <<>>
        ELSE IF IsSpace(s[k]) /\ k > 1 /\ IsSpace(s[k - 1])
               THEN F[k - 1]
               ELSE Append(F[k - 1], s[k])
  IN  F[Len(s)]

\* content.replace(/\s+/g, ' ').trim()
Normalize(s) == Trim(CollapseWhitespace(s))

\* ------------------------------------------------------------------------
\* Chunker (chunking.ts)
\* ------------------------------------------------------------------------

\* Math.floor(chunk_size * 0.2)
SearchWindow(chunkSize) == (chunkSize * 2) \div 10

\* findBreakPoint(content, start, idealEnd)
findBreakPoint(content, start, idealEnd, chunkSize) ==
  LET searchStart == idealEnd - SearchWindow(chunkSize)
      searchRegion == Slice(content, searchStart, idealEnd)
      sentenceMatches ==
        {m \in 0 .. (Len(searchRegion) - 2) :
           IsSentenceEnd(searchRegion[m + 1]) /\ IsSpace(searchRegion[m + 2])}
      lastSentenceEnd ==
        IF sentenceMatches = {} THEN -1
        ELSE searchStart + (CHOOSE m \in sentenceMatches :
                              \A j \in sentenceMatches : m >= j) + 1
      wordMatches ==
        {m \in 0 .. (Len(searchRegion) - 1) : IsSpace(searchRegion[m + 1])}
      lastWordBoundary ==
        IF wordMatches = {} THEN -1
        ELSE searchStart + (CHOOSE m \in wordMatches : \A j \in wordMatches : m >= j)
  IN  IF lastSentenceEnd > start THEN lastSentenceEnd
      ELSE IF lastWordBoundary > start THEN lastWordBoundary
      ELSE idealEnd

\* The while loop of chunkContent, from the cursor `position` with the chunks
\* emitted so far.  fuel bounds the number of passes the model follows: a run
\* that needs more is reported as not terminated.
RECURSIVE ChunkLoop(_, _, _, _, _, _)
ChunkLoop(content, chunkSize, chunkOverlap, position, chunks, fuel) ==
  IF ~(position < Len(content)) THEN [chunks |-> chunks, terminated |-> TRUE]
  ELSE IF fuel = 0 THEN [chunks |-> chunks, terminated |-> FALSE]
  ELSE
    LET ideal == position + chunkSize
        endPosition == IF ideal < Len(content)
                         THEN findBreakPoint(content, position, ideal, chunkSize)
                         ELSE Len(content)
        chunkText == Trim(Slice(content, position, endPosition))
        pushed == IF Len(chunkText) > 0
                    THEN Append(chunks, [text |-> chunkText, index |-> Len(chunks),
                                         start |-> position, end |-> endPosition])
                    ELSE chunks
        overlapped == endPosition - chunkOverlap
        \* position <= chunks[chunks.length - 1]?.text.length: with no chunk
        \* the right side is undefined and the comparison is false.
        movesBack == /\ Len(pushed) > 0
                     /\ overlapped <= Len(pushed[Len(pushed)].text)
        next == IF movesBack THEN endPosition ELSE overlapped
    IN  IF endPosition < Len(content)
          THEN ChunkLoop(content, chunkSize, chunkOverlap, next, pushed, fuel - 1)
          ELSE [chunks |-> pushed, terminated |-> TRUE]

\* The number of loop passes the model follows before it gives up.
ChunkFuel(content) == 2 * Len(content) + 2

\* chunkContent(content) under settings chunk_size, chunk_overlap.  Each chunk
\* carries, beside text and index, the span it was cut from.
runChunkContent(text, chunkSize, chunkOverlap) ==
  LET content == Normalize(text)
  IN  IF Len(content) <= chunkSize
        THEN [chunks |-> <<[text |-> content, index |-> 0,
                            start |-> 0, end |-> Len(content)]>>,
              terminated |-> TRUE]
        ELSE ChunkLoop(content, chunkSize, chunkOverlap, 0, <<>>, ChunkFuel(content))

chunkContent(text, chunkSize, chunkOverlap) ==
  runChunkContent(text, chunkSize, chunkOverlap).chunks

\* ------------------------------------------------------------------------
\* Vector ids (pinecone.ts createVectorId, indexer.ts vectorIdPattern)
\* ------------------------------------------------------------------------

DigitChars == <<"0", "1", "2", "3", "4", "5", "6", "7", "8", "9">>

IsDigit(ch) == \E d \in 1 .. Len(DigitChars) : DigitChars[d] = ch

DigitValue(ch) == (CHOOSE d \in 1 .. Len(DigitChars) : DigitChars[d] = ch) - 1

\* The decimal digits of n >= 0, as `${n}` prints them.
RECURSIVE ToDigits(_)
ToDigits(n) ==
  IF n < Len(DigitChars) THEN <<DigitChars[n + 1]>>
  ELSE Append(ToDigits(n \div Len(DigitChars)), DigitChars[(n % Len(DigitChars)) + 1])

\* parseInt(digits, 10) of a non-empty string of digits.
RECURSIVE parseInt(_)
parseInt(ds) ==
  IF Len(ds) = 0 THEN 0
  ELSE parseInt(SubSeq(ds, 1, Len(ds) - 1)) * Len(DigitChars) + DigitValue(ds[Len(ds)])

PostPrefix == <<"p", "o", "s", "t", "-">>
ChunkInfix == <<"-", "c", "h", "u", "n", "k", "-">>

\* An id that carries the two numbers in the other order.
createVectorIdSwapped(postId, chunkIndex) ==
  PostPrefix \o ToDigits(chunkIndex) \o ChunkInfix \o ToDigits(postId)

\* `post-${postId}-chunk-${chunkIndex}`
createVectorId(postId, chunkIndex) ==
  PostPrefix \o ToDigits(postId) \o ChunkInfix \o ToDigits(chunkIndex)

AllDigits(ds) == Len(ds) > 0 /\ \A k \in 1 .. Len(ds) : IsDigit(ds[k])

\* vectorId.match(/^post-(\d+)-chunk-\d+$/): the lengths a of the first and b
\* of the second run of digits, when the id matches.
VectorIdSplits(vectorId) ==
  {ab \in (1 .. Len(vectorId)) \X (1 .. Len(vectorId)) :
     /\ Len(vectorId) = Len(PostPrefix) + ab[1] + Len(ChunkInfix) + ab[2]
     /\ SubSeq(vectorId, 1, Len(PostPrefix)) = PostPrefix
     /\ AllDigits(SubSeq(vectorId, Len(PostPrefix) + 1, Len(PostPrefix) + ab[1]))
     /\ SubSeq(vectorId, Len(PostPrefix) + ab[1] + 1,
               Len(PostPrefix) + ab[1] + Len(ChunkInfix)) = ChunkInfix
     /\ AllDigits(SubSeq(vectorId, Len(PostPrefix) + ab[1] + Len(ChunkInfix) + 1,
                         Len(vectorId)))}

MatchesVectorIdPattern(vectorId) == VectorIdSplits(vectorId) # {}

\* parseInt(match[1], 10)
ParsedPostId(vectorId) ==
  LET ab == CHOOSE x \in VectorIdSplits(vectorId) : TRUE
  IN  parseInt(SubSeq(vectorId, Len(PostPrefix) + 1, Len(PostPrefix) + ab[1]))

\* ------------------------------------------------------------------------
\* The content source and the content fetcher's outcome (wordpress.ts)
\* ------------------------------------------------------------------------

\* The sites; settings.domain is the host name of config.wpApiBase.
Sites == {"a.example", "b.example"}

PostTypes == {"post"}

ShortText == <<"a", "a", ".">>
LongText == <<"a", "a", "a", " ", "a", "a", ".", " ", "a", "a", "a", "a">>

OtherText == <<"a", ".">>

\* The posts a site has ever had, in the order the REST API lists them: post
\* types in configured order, pages in order.  Both sites have a post with
\* id 1.
Catalogue(s) ==
  IF s = "a.example"
    THEN << [id |-> 1, type |-> "post", page |-> 1, text |-> ShortText],
            [id |-> 2, type |-> "post", page |-> 2, text |-> LongText],
            [id |-> 5, type |-> "post", page |-> 2, text |-> ShortText] >>
    ELSE << [id |-> 1, type |-> "post", page |-> 1, text |-> OtherText] >>

\* The posts a request with status=publish lists.
Source(s) ==
  LET IsPublished(d) == d.id \in published[s]
  IN  SelectSeq(Catalogue(s), IsPublished)

\* The posts that are published while index() is studied.
InitiallyPublished == [s \in Sites |-> IF s = "a.example" THEN {1, 2} ELSE {1}]

SourceUnchanged == published = InitiallyPublished

\* What can go wrong while fetching: the post types whose first page request
\* fails (the catch of fetchAllPosts abandons the type) and the later pages
\* whose request fails or is not awaited (fetchPagesWithConcurrency stores no
\* posts for them).
FetchFailures ==
  [types : SUBSET PostTypes, pages : SUBSET {<<"post", 2>>}]

NoFetchFailure == [types |-> {}, pages |-> {}]

\* The documents fetchAllPosts() yields, in order.
fetchAllPosts(s, failure) ==
  LET Yielded(d) == /\ d.type \notin failure.types
                    /\ <<d.type, d.page>> \notin failure.pages
  IN  SelectSeq(Source(s), Yielded)

\* ------------------------------------------------------------------------
\* Vector store gateway (pinecone.ts)
\* ------------------------------------------------------------------------

Ids(vectors) == {v.id : v \in vectors}

\* index.namespace(ns).upsert(batch): a vector replaces the stored vector
\* with the same id.
upsertVectors(stored, vectors) ==
  {v \in stored : v.id \notin Ids(vectors)} \cup vectors

\* createVector(postId, chunkIndex, embedding, metadata) for the chunks of a
\* document, with metadata.domain = settings.domain.
ChunkVectors(doc, domain, chunks) ==
  {[id |-> createVectorId(doc.id, chunks[j].index),
    domain |-> domain,
    post_id |-> doc.id,
    chunk_index |-> chunks[j].index] : j \in 1 .. Len(chunks)}

DocVectors(doc, domain) ==
  ChunkVectors(doc, domain, chunkContent(doc.text, ChunkSize, ChunkOverlap))

\* ------------------------------------------------------------------------
\* Indexer.index() (indexer.ts)
\* ------------------------------------------------------------------------

\* config.concurrency || 5
DefaultConcurrency == 5

EffectiveConcurrency(c) == IF c = 0 THEN DefaultConcurrency ELSE c

ZeroProgress ==
  [totalPosts |-> 0, processedPosts |-> 0, totalChunks |-> 0,
   processedChunks |-> 0, errors |-> 0]

NoResult == [returned |-> FALSE, success |-> FALSE, stats |-> ZeroProgress, errors |-> <<>>]

NoRun == [site |-> "", posts |-> <<>>, success |-> FALSE, ids |-> {}, upserted |-> {},
          fatalIn |-> "none"]

\* errors.push({ message: `Fatal error: ${error.message}` })
FatalEntry == [kind |-> "fatal", post_id |-> 0]

\* errors.push({ post_id: doc.id, message: `Failed to process post ...` })
PostEntry(doc) == [kind |-> "post", post_id |-> doc.id]

\* What can go wrong in the processor of one document.
DocFailures == {"none", "embedding", "upsert"}

\* How the processor of a document settles.
ChunksOutcome(count, failure) ==
  IF count = 0 THEN Fulfilled(0)
  ELSE IF failure = "none" THEN Fulfilled(count)
  ELSE Rejected(failure)

DocOutcome(doc, failure) ==
  ChunksOutcome(Len(chunkContent(doc.text, ChunkSize, ChunkOverlap)), failure)

\* The vectors the processor of a document has upserted when it settles.
DocUpserts(doc, domain, failure) ==
  IF failure = "none" THEN DocVectors(doc, domain) ELSE {}

\* results.forEach(...): the counters after the slots 0..n-1 were visited.
\* forEach skips the holes of the array.
RECURSIVE AggregateProgress(_, _)
AggregateProgress(prog, n) ==
  IF n = 0 THEN prog
  ELSE
    LET before == AggregateProgress(prog, n - 1)
        r == results[n - 1]
    IN  IF r.status = "fulfilled" /\ r.value > 0
          THEN [before EXCEPT !.processedPosts = @ + 1,
                              !.totalChunks = @ + r.value,
                              !.processedChunks = @ + r.value]
        ELSE IF r.status = "fulfilled"
          THEN [before EXCEPT !.processedPosts = @ + 1]
        ELSE IF r.status = "rejected"
          THEN [before EXCEPT !.errors = @ + 1]
        ELSE before

\* results.forEach(...): the entries pushed on errors.
RECURSIVE AggregateErrors(_, _)
AggregateErrors(errs, n) ==
  IF n = 0 THEN errs
  ELSE
    LET before == AggregateErrors(errs, n - 1)
    IN  IF results[n - 1].status = "rejected"
          THEN Append(before, PostEntry(allPosts[n]))
          ELSE before

\* The call returns { success, stats: this.progress, errors }.
IndexReturn(success, errs, prog, fatalIn) ==
  /\ result' = [returned |-> TRUE, success |-> success, stats |-> prog, errors |-> errs]
  /\ idxPc' = "returned"
  /\ prevRun' = lastRun
  /\ lastRun' = [site |-> site,
                 posts |-> allPosts,
                 success |-> success,
                 ids |-> Ids(store),
                 upserted |-> upserted,
                 fatalIn |-> fatalIn]

\* The outer catch: push the fatal entry, return { success: false, ... }.
IndexFatal(phase) == IndexReturn(FALSE, Append(errors, FatalEntry), progress[site], phase)

\* index() is called on the Indexer of site s, whose config.concurrency is c.
IndexCall(s, c) ==
  /\ idxPc \in {"idle", "returned"}
  /\ InFlight = 0
  /\ runs < MaxRuns
  /\ runs' = runs + 1
  /\ site' = s
  /\ configConcurrency' = c
  /\ errors' = <<>>
  /\ allPosts' = <<>>
  /\ upserted' = {}
  /\ idxPc' = "settings"
  /\ result' = NoResult
  /\ PwcDiscard
  /\ UNCHANGED <<store, progress, lastRun, prevRun>>

\* await settingsManager.fetchSettings() settles.
IndexSettings(ok) ==
  /\ idxPc = "settings"
  /\ IF ok
       THEN idxPc' = "initialize" /\ UNCHANGED <<result, lastRun, prevRun>>
       ELSE IndexFatal("settings")
  /\ UNCHANGED <<pwcVars, store, site, configConcurrency, allPosts, errors, progress,
                 runs, upserted>>

\* await pinecone.initialize() settles.
IndexInitialize(ok) ==
  /\ idxPc = "initialize"
  /\ IF ok
       THEN idxPc' = "fetch" /\ UNCHANGED <<result, lastRun, prevRun>>
       ELSE IndexFatal("initialize")
  /\ UNCHANGED <<pwcVars, store, site, configConcurrency, allPosts, errors, progress,
                 runs, upserted>>

\* The for await loop has drained fetchAllPosts(); totalPosts is set and
\* processWithConcurrency(allPosts, ..., concurrency) is called.
IndexFetch(failure) ==
  /\ idxPc = "fetch"
  /\ allPosts' = fetchAllPosts(site, failure)
  /\ progress' = [progress EXCEPT ![site].totalPosts = Len(allPosts')]
  /\ PwcCall(Len(allPosts'), EffectiveConcurrency(configConcurrency))
  /\ idxPc' = "process"
  /\ UNCHANGED <<store, site, configConcurrency, errors, result, runs, upserted,
                 lastRun, prevRun>>

\* The loop of processWithConcurrency starts the processor of the next document.
IndexStartProcessor ==
  /\ idxPc = "process"
  /\ PwcStart
  /\ UNCHANGED notPwc

\* The processor of document k settles: chunked, embedded, upserted, or failed.
IndexSettleProcessor(k, failure) ==
  /\ k < Len(allPosts)
  /\ PwcSettle(k, DocOutcome(allPosts[k + 1], failure))
  /\ \E vectors \in {DocUpserts(allPosts[k + 1], site, failure)} :
       /\ store' = upsertVectors(store, vectors)
       /\ upserted' = upserted \cup Ids(vectors)
  /\ UNCHANGED <<idxPc, site, configConcurrency, allPosts, errors, progress, result,
                 runs, lastRun, prevRun>>

IndexRaceResume ==
  /\ idxPc = "process"
  /\ PwcRaceResume
  /\ IF pwcPc' = "rejected"
       THEN IndexFatal("processing") /\ UNCHANGED <<errors, progress>>
       ELSE UNCHANGED <<idxPc, errors, progress, result, lastRun, prevRun>>
  /\ UNCHANGED <<store, site, configConcurrency, allPosts, runs, upserted>>

IndexLoopExit ==
  /\ idxPc = "process"
  /\ PwcLoopExit
  /\ UNCHANGED notPwc

\* processWithConcurrency returns; results.forEach(...) updates the progress
\* and collects the errors; the statistics are printed and
\* pinecone.getStats() is called.
IndexProcessed ==
  /\ idxPc = "process"
  /\ PwcAllResume
  /\ IF pwcPc' = "rejected"
       THEN IndexFatal("processing") /\ UNCHANGED <<errors, progress>>
       ELSE /\ progress' = [progress EXCEPT ![site] = AggregateProgress(@, items)]
            /\ errors' = AggregateErrors(errors, items)
            /\ idxPc' = "stats"
            /\ UNCHANGED <<result, lastRun, prevRun>>
  /\ UNCHANGED <<store, site, configConcurrency, allPosts, runs, upserted>>

\* await pinecone.getStats() settles; index() returns.
IndexStats(ok) ==
  /\ idxPc = "stats"
  /\ IF ok
       THEN IndexReturn(Len(errors) = 0, errors, progress[site], "none")
       ELSE IndexFatal("stats")
  /\ UNCHANGED <<pwcVars, store, site, configConcurrency, allPosts, errors, progress,
                 runs, upserted>>

IndexIdle ==
  /\ idxPc = "idle"
  /\ site = ""
  /\ configConcurrency = 0
  /\ allPosts = <<>>
  /\ errors = <<>>
  /\ progress = [s \in Sites |-> ZeroProgress]
  /\ result = NoResult
  /\ runs = 0
  /\ upserted = {}
  /\ lastRun = NoRun
  /\ prevRun = NoRun

\* ------------------------------------------------------------------------
\* Enumeration and deletion (pinecone.ts listVectorIdsForDomain,
\* deleteByVectorIds, deleteAllForDomain; indexer.ts clean, deleteAll)
\* ------------------------------------------------------------------------

\* A vector stored without metadata has no domain.
NoMetadata == ""

\* The ids of a set in a fixed order.
RECURSIVE SetToSeq(_)
SetToSeq(S) ==
  IF S = {} THEN <<>>
  ELSE LET x == CHOOSE y \in S : TRUE
       IN  <<x>> \o SetToSeq(S \ {x})

\* index.namespace(ns).listPaginated({ limit, paginationToken }): the ids of
\* one page and the token of the next page (0: the response has no
\* pagination.next).  A token stands for the offset of its page.
listPaginated(stored, token) ==
  LET all == SetToSeq(Ids(stored))
      last == Min(token + ListLimit, Len(all))
  IN  [vectors |-> SubSeq(all, token + 1, last),
       next |-> IF last < Len(all) THEN last ELSE 0]

\* index.namespace(ns).fetch(ids): the metadata.domain of the record of an id.
FetchedDomain(stored, id) == (CHOOSE v \in stored : v.id = id).domain

\* A filter that keeps every fetched record.
KeepsAnyDomain(metadataDomain, domain) == TRUE

\* metadata && metadata.domain === this.settings.domain
KeepsDomain(metadataDomain, domain) ==
  metadataDomain # NoMetadata /\ metadataDomain = domain

\* The ids of a fetched page that listVectorIdsForDomain pushes on vectorIds.
FilteredPage(stored, ids, domain) ==
  LET Kept(id) == KeepsDomain(FetchedDomain(stored, id), domain)
  IN  SelectSeq(ids, Kept)

\* The keys of pineconePostIds in insertion order: the post ids parsed from
\* the ids that match the pattern, each once, in order of first appearance.
RECURSIVE ParsedPostIds(_)
ParsedPostIds(ids) ==
  IF Len(ids) = 0 THEN <<>>
  ELSE
    LET before == ParsedPostIds(SubSeq(ids, 1, Len(ids) - 1))
        id == ids[Len(ids)]
    IN  IF MatchesVectorIdPattern(id)
           /\ \A k \in 1 .. Len(before) : before[k] # ParsedPostId(id)
          THEN Append(before, ParsedPostId(id))
          ELSE before

\* postIdToVectorIds.get(postId)
VectorIdsOfPost(ids, postId) ==
  LET Of(id) == MatchesVectorIdPattern(id) /\ ParsedPostId(id) = postId
  IN  SelectSeq(ids, Of)

\* A diff that takes the posts that ARE in WordPress for the deleted ones.
IsDeletedPostInverted(postId, live) == postId \in live

\* !wpPostIds.has(postId)
IsDeletedPost(postId, live) == postId \notin live

\* Step 5 of clean(): vectorIdsToDelete.
RECURSIVE CollectVectorIds(_, _, _)
CollectVectorIds(postIds, ids, live) ==
  IF Len(postIds) = 0 THEN <<>>
  ELSE (IF IsDeletedPost(Head(postIds), live)
          THEN VectorIdsOfPost(ids, Head(postIds))
          ELSE <<>>) \o CollectVectorIds(Tail(postIds), ids, live)

VectorIdsToDelete(ids, live) == CollectVectorIds(ParsedPostIds(ids), ids, live)

SeqToSet(q) == {q[k] : k \in 1 .. Len(q)}

\* The operation throws.
CleanFails ==
  /\ cleanPc' = "failed"
  /\ UNCHANGED <<store, wpPostIds, paginationToken, pageIds, vectorIds, toDelete,
                 deleted, passed>>

\* clean() or deleteAll() is called on the Indexer of site s.
CleanCall(op, s) ==
  /\ cleanPc = "idle"
  /\ cleanOp' = op
  /\ cleanSite' = s
  /\ cleanPc' = "settings"
  /\ store0' = store
  /\ UNCHANGED <<store, published, cleanDeleted, wpPostIds, paginationToken, pageIds,
                 vectorIds, toDelete, deleted, passed>>

\* await settingsManager.fetchSettings() settles; clean() returns at once when
\* settings.clean_deleted is off.
CleanSettings(ok) ==
  /\ cleanPc = "settings"
  /\ IF ~ok THEN CleanFails
     ELSE /\ cleanPc' = IF cleanOp = "clean" /\ ~cleanDeleted THEN "done" ELSE "initialize"
          /\ UNCHANGED <<store, wpPostIds, paginationToken, pageIds, vectorIds, toDelete,
                         deleted, passed>>
  /\ UNCHANGED <<published, cleanOp, cleanSite, cleanDeleted, store0>>

\* await pinecone.initialize() settles.
CleanInitialize(ok) ==
  /\ cleanPc = "initialize"
  /\ IF ~ok THEN CleanFails
     ELSE /\ cleanPc' = IF cleanOp = "clean" THEN "fetch" ELSE "stats"
          /\ UNCHANGED <<store, wpPostIds, paginationToken, pageIds, vectorIds, toDelete,
                         deleted, passed>>
  /\ UNCHANGED <<published, cleanOp, cleanSite, cleanDeleted, store0>>

\* Step 1 of clean(): the for await loop has drained fetchAllPosts().
CleanFetch(failure) ==
  /\ cleanPc = "fetch"
  /\ wpPostIds' = {d.id : d \in SeqToSet(fetchAllPosts(cleanSite, failure))}
  /\ cleanPc' = "stats"
  /\ UNCHANGED <<store, published, cleanOp, cleanSite, cleanDeleted, paginationToken,
                 pageIds, vectorIds, toDelete, deleted, passed, store0>>

\* await pinecone.getStats() settles; listVectorIdsForDomain() begins.
CleanStats(ok) ==
  /\ cleanPc = "stats"
  /\ IF ~ok THEN CleanFails
     ELSE /\ cleanPc' = "list"
          /\ paginationToken' = 0
          /\ vectorIds' = <<>>
          /\ UNCHANGED <<store, wpPostIds, pageIds, toDelete, deleted, passed>>
  /\ UNCHANGED <<published, cleanOp, cleanSite, cleanDeleted, store0>>

\* listVectorIdsForDomain() has returned ids: clean() diffs them against
\* wpPostIds, deleteAllForDomain() takes them all; deleteByVectorIds is called
\* unless there is nothing to delete.
ListingDone(ids) ==
  LET wanted == IF cleanOp = "clean" THEN VectorIdsToDelete(ids, wpPostIds) ELSE ids
  IN  /\ toDelete' = wanted
      /\ cleanPc' = IF Len(wanted) > 0 THEN "delete"
                    ELSE IF cleanOp = "clean" THEN "done" ELSE "statsAfter"

\* After a page: follow pagination.next, or leave the loop.
NextPageOrDone(ids) ==
  LET next == listPaginated(store, paginationToken).next
  IN  IF next # 0
        THEN /\ paginationToken' = next
             /\ cleanPc' = "list"
             /\ UNCHANGED toDelete
        ELSE /\ ListingDone(ids)
             /\ UNCHANGED paginationToken

\* await listPaginated(...) settles.
CleanList(ok) ==
  /\ cleanPc = "list"
  /\ IF ~ok THEN CleanFails
     ELSE LET response == listPaginated(store, paginationToken)
          IN  IF Len(response.vectors) > 0
                THEN /\ pageIds' = response.vectors
                     /\ cleanPc' = "fetchMeta"
                     /\ UNCHANGED <<store, wpPostIds, paginationToken, vectorIds,
                                    toDelete, deleted, passed>>
                ELSE /\ NextPageOrDone(vectorIds)
                     /\ UNCHANGED <<store, wpPostIds, pageIds, vectorIds, deleted, passed>>
  /\ UNCHANGED <<published, cleanOp, cleanSite, cleanDeleted, store0>>

\* await fetch(vectorIdsToFetch) settles; the records of the domain are kept.
CleanFetchMeta(ok) ==
  /\ cleanPc = "fetchMeta"
  /\ IF ~ok THEN CleanFails
     ELSE /\ vectorIds' = vectorIds \o FilteredPage(store, pageIds, cleanSite)
          /\ NextPageOrDone(vectorIds')
          /\ UNCHANGED <<store, wpPostIds, pageIds, deleted, passed>>
  /\ UNCHANGED <<published, cleanOp, cleanSite, cleanDeleted, store0>>

\* deleteByVectorIds: await deleteMany(batch) settles for the next batch.
CleanDeleteBatch(ok) ==
  /\ cleanPc = "delete"
  /\ LET batch == SubSeq(toDelete, 1, Min(DeleteBatchSize, Len(toDelete)))
         rest == SubSeq(toDelete, Len(batch) + 1, Len(toDelete))
     IN  /\ passed' = passed \cup SeqToSet(batch)
         /\ IF ~ok
              THEN /\ cleanPc' = "failed"
                   /\ UNCHANGED <<store, toDelete, deleted>>
              ELSE /\ store' = {v \in store : v.id \notin SeqToSet(batch)}
                   /\ deleted' = deleted \cup {v \in store : v.id \in SeqToSet(batch)}
                   /\ toDelete' = rest
                   /\ cleanPc' = IF Len(rest) > 0 THEN "delete"
                                 ELSE IF cleanOp = "clean" THEN "done" ELSE "statsAfter"
  /\ UNCHANGED <<published, cleanOp, cleanSite, cleanDeleted, wpPostIds, paginationToken,
                 pageIds, vectorIds, store0>>

\* deleteAll(): after the pause, await pinecone.getStats() settles.
CleanStatsAfter(ok) ==
  /\ cleanPc = "statsAfter"
  /\ IF ~ok THEN CleanFails
     ELSE /\ cleanPc' = "done"
          /\ UNCHANGED <<store, wpPostIds, paginationToken, pageIds, vectorIds, toDelete,
                         deleted, passed>>
  /\ UNCHANGED <<published, cleanOp, cleanSite, cleanDeleted, store0>>

CleanIdle ==
  /\ cleanPc = "idle"
  /\ cleanOp = "clean"
  /\ cleanSite = ""
  /\ cleanDeleted = FALSE
  /\ wpPostIds = {}
  /\ paginationToken = 0
  /\ pageIds = <<>>
  /\ vectorIds = <<>>
  /\ toDelete = <<>>
  /\ deleted = {}
  /\ passed = {}
  /\ store0 = {}

\* ------------------------------------------------------------------------
\* CircuitBreaker (utils.ts)
\* ------------------------------------------------------------------------

Callers == 1 .. MaxCallers

\* A breaker that lets a call through as soon as any time has passed.
TimeoutElapsedAtOnce == now - lastFailureTime >= 0

\* Date.now() - this.lastFailureTime >= this.resetTimeout
TimeoutElapsed == now - lastFailureTime >= ResetTimeout

\* execute(), up to the call of fn: an open breaker whose timeout has elapsed
\* becomes half-open, an open breaker whose timeout has not elapsed throws.
BreakerThrowsOpen == cbState = "open" /\ ~TimeoutElapsed

BreakerStateOnEntry ==
  IF cbState = "open" /\ TimeoutElapsed THEN "half-open" ELSE cbState

\* execute() after fn() fulfilled: a half-open breaker closes.
BreakerOnSuccess ==
  /\ cbState' = IF cbState = "half-open" THEN "closed" ELSE cbState
  /\ failureCount' = IF cbState = "half-open" THEN 0 ELSE failureCount
  /\ UNCHANGED lastFailureTime

\* A breaker that does not restart its timer on a failure.
BreakerOnFailureKeepsTimer ==
  /\ failureCount' = failureCount + 1
  /\ UNCHANGED lastFailureTime
  /\ cbState' = IF failureCount + 1 >= FailureThreshold THEN "open" ELSE cbState

\* execute() after fn() rejected.
BreakerOnFailure ==
  /\ failureCount' = failureCount + 1
  /\ lastFailureTime' = now
  /\ cbState' = IF failureCount + 1 >= FailureThreshold THEN "open" ELSE cbState

\* Caller c calls execute(fn); the code runs up to `await fn()`.
BreakerExecute(c) ==
  /\ call[c] # "running"
  /\ blocked' = [blocked EXCEPT ![c] = failureCount >= FailureThreshold
                                          /\ now - lastFailureTime < ResetTimeout]
  /\ IF BreakerThrowsOpen
       THEN /\ call' = [call EXCEPT ![c] = "rejectedOpen"]
            /\ admitted' = [admitted EXCEPT ![c] = "none"]
            /\ UNCHANGED cbState
       ELSE /\ call' = [call EXCEPT ![c] = "running"]
            /\ admitted' = [admitted EXCEPT ![c] =
                              IF cbState = "open" THEN "probe" ELSE cbState]
            /\ cbState' = BreakerStateOnEntry
  /\ UNCHANGED <<now, failureCount, lastFailureTime, failureStreak>>

\* fn() of caller c settles; the code runs to the end of execute().
BreakerSettle(c, ok) ==
  /\ call[c] = "running"
  /\ ok \/ failureCount < MaxFailureCount
  /\ IF ok THEN BreakerOnSuccess ELSE BreakerOnFailure
  /\ call' = [call EXCEPT ![c] = IF ok THEN "returned" ELSE "threw"]
  /\ failureStreak' = IF ok THEN 0 ELSE Min(failureStreak + 1, FailureThreshold)
  /\ UNCHANGED <<now, admitted, blocked>>

\* reset()
BreakerReset ==
  /\ failureCount' = 0
  /\ cbState' = "closed"
  /\ UNCHANGED <<now, lastFailureTime, call, admitted, blocked, failureStreak>>

\* The clock advances.
Tick ==
  /\ now < MaxTime
  /\ now' = now + 1

BreakerIdle ==
  /\ cbState = "closed"
  /\ failureCount = 0
  /\ lastFailureTime = 0
  /\ call = [c \in Callers |-> "none"]
  /\ admitted = [c \in Callers |-> "none"]
  /\ blocked = [c \in Callers |-> FALSE]
  /\ failureStreak = 0

\* ------------------------------------------------------------------------
\* RateLimiter (utils.ts)
\* ------------------------------------------------------------------------

CeilDiv(a, b) == (a + b - 1) \div b

\* The ticks of the 100 ms cap of the polling delay.
PollTicks == 1

\* A refill that is not capped.
RefilledUncapped == tokens + (now - lastRefill) * RefillPerTick

\* A refill that adds nothing.
RefilledNothing == tokens

\* refill(): this.tokens after it.
Refilled == Min(Capacity, tokens + (now - lastRefill) * RefillPerTick)

\* A grant that takes nothing out of the bucket.
TokensAfterGrantFree(n) == Refilled

\* this.tokens -= tokensNeeded
TokensAfterGrant(n) == Refilled - n

\* delay(Math.min(waitTime, 100)) with waitTime = shortage / refillRate, in
\* ticks: the timer fires at the first tick not before its time.
WaitTicks(n) == Min(CeilDiv(n - Refilled, RefillPerTick), PollTicks)

\* One pass of the while loop of acquire(n) by caller c: refill, then take
\* the tokens and return, or start the delay.
AcquirePass(c, n) ==
  /\ lastRefill' = now
  /\ IF Refilled >= n
       THEN /\ tokens' = TokensAfterGrant(n)
            /\ acq' = [acq EXCEPT ![c] = [pc |-> "granted", n |-> 0, wakeAt |-> 0]]
            /\ grants' = [grants EXCEPT ![now] = @ + n]
       ELSE /\ tokens' = Refilled
            /\ acq' = [acq EXCEPT ![c] = [pc |-> "waiting", n |-> n,
                                          wakeAt |-> now + WaitTicks(n)]]
            /\ UNCHANGED grants
  /\ UNCHANGED now

\* Caller c calls acquire(n).
LimiterAcquire(c, n) ==
  /\ acq[c].pc # "waiting"
  /\ AcquirePass(c, n)

\* The delay of caller c is over: the loop runs again.
LimiterWake(c) ==
  /\ acq[c].pc = "waiting"
  /\ now >= acq[c].wakeAt
  /\ AcquirePass(c, acq[c].n)

\* Date.now() is one tick later. The limiter reads only differences of
\* times, so the origin of the clock moves with it: the times the limiter
\* holds (lastRefill, the wake-up times, the instants of the grants) are one
\* tick further in the past. A lastRefill so old that refill() fills the
\* bucket whatever this.tokens is stays that old, and so does a wake-up
\* time that has passed.
LimiterClock ==
  /\ lastRefill' = IF (now - lastRefill) * RefillPerTick >= Capacity
                     THEN lastRefill ELSE lastRefill - 1
  /\ acq' = [c \in Callers |->
              IF acq[c].pc = "waiting" /\ acq[c].wakeAt > now
                THEN [acq[c] EXCEPT !.wakeAt = @ - 1] ELSE acq[c]]
  /\ grants' = [t \in 0 .. MaxLimiterTime |->
                 IF t < MaxLimiterTime THEN grants[t + 1] ELSE 0]
  /\ UNCHANGED <<now, tokens>>

LimiterIdle ==
  /\ tokens = Capacity
  /\ lastRefill = 0
  /\ acq = [c \in Callers |-> [pc |-> "none", n |-> 0, wakeAt |-> 0]]
  /\ grants = [t \in 0 .. MaxLimiterTime |-> 0]

\* ------------------------------------------------------------------------
\* retryWithBackoff and isRetryableError (utils.ts)
\* ------------------------------------------------------------------------

\* The errors fn can throw: status is error.status (0: the error has none),
\* code is error.code ("": the error has none).
ErrorStatuses == {0, 400, 404, 429, 500, 503}
ErrorCodes == {"", "ECONNRESET", "ETIMEDOUT", "ENOTFOUND", "EACCES"}
ErrorsThrown == [status : ErrorStatuses, code : ErrorCodes]
NoError == [status |-> 0, code |-> ""]

\* A classifier that takes every error for retryable.
isRetryableErrorAlways(error) == TRUE

\* isRetryableError(error)
isRetryableError(error) ==
  IF error.status # 0
    THEN error.status = 429 \/ error.status >= 500
    ELSE error.code \in {"ECONNRESET", "ETIMEDOUT", "ENOTFOUND"}

\* retryWithBackoff(fn, m, ...) is called: the loop starts with attempt = 0
\* and invokes fn.
RetryCall(m) ==
  /\ retryPc = "idle"
  /\ maxRetries' = m
  /\ attempt' = 0
  /\ retryPc' = "calling"
  /\ invocations' = 1
  /\ UNCHANGED <<lastError, retryOutcome>>

\* fn() fulfils with value v: return await fn().
RetryFnFulfils(v) ==
  /\ retryPc = "calling"
  /\ retryPc' = "returned"
  /\ retryOutcome' = [kind |-> "value", value |-> v, error |-> NoError]
  /\ UNCHANGED <<maxRetries, attempt, lastError, invocations>>

\* fn() rejects with error: the catch block breaks out of the loop on the
\* last attempt (throw lastError), re-throws an error that is not retryable,
\* or starts the backoff delay.
RetryFnRejects(error) ==
  /\ retryPc = "calling"
  /\ lastError' = error
  /\ IF attempt = maxRetries \/ ~isRetryableError(error)
       THEN /\ retryPc' = "threw"
            /\ retryOutcome' = [kind |-> "error", value |-> 0, error |-> error]
       ELSE /\ retryPc' = "sleeping"
            /\ UNCHANGED retryOutcome
  /\ UNCHANGED <<maxRetries, attempt, invocations>>

\* The backoff delay is over: attempt++ and fn is invoked again.
RetryWake ==
  /\ retryPc = "sleeping"
  /\ attempt' = attempt + 1
  /\ retryPc' = "calling"
  /\ invocations' = invocations + 1
  /\ UNCHANGED <<maxRetries, lastError, retryOutcome>>

RetryIdle ==
  /\ retryPc = "idle"
  /\ maxRetries = 0
  /\ attempt = 0
  /\ lastError = NoError
  /\ retryOutcome = [kind |-> "none", value |-> 0, error |-> NoError]
  /\ invocations = 0

\* ------------------------------------------------------------------------
\* EmbeddingsManager.createEmbedding (embeddings.ts)
\* The manager's breaker is new CircuitBreaker(5, 60000); it lives in cbState,
\* failureCount and lastFailureTime. One tick of the clock is 5000 ms.
\* ------------------------------------------------------------------------

\* createEmbedding: this.createEmbeddingWithRetry(text, 3)
EmbedMaxRetries == 3

\* new CircuitBreaker(5, 60000): failureThreshold, and resetTimeout in ticks
EmbedFailureThreshold == 5
EmbedResetTicks == 12

\* delay(5000) in ticks
CooldownTicks == 1

\* The errors a request to the embedding API fails with: an HTTP error has a
\* status, a network error has a code.
ApiErrors ==
  {[message |-> "api", status |-> e.status, code |-> e.code] :
     e \in {x \in ErrorsThrown : x.status = 0 \/ x.code = ""}}

\* new Error('Circuit breaker is open'), thrown by execute()
OpenError == [message |-> "Circuit breaker is open", status |-> 0, code |-> ""]

\* new Error('No embedding data returned')
NoDataError == [message |-> "No embedding data returned", status |-> 0, code |-> ""]

NoEmbedError == [message |-> "", status |-> 0, code |-> ""]

\* A manager that retries on HTTP statuses only.
shouldRetryStatusOnly(error) == error.status = 429 \/ error.status >= 500

\* shouldRetry(error)
shouldRetry(error) ==
  IF error.status # 0
    THEN error.status = 429 \/ error.status >= 500
    ELSE error.code \in {"ECONNRESET", "ETIMEDOUT"}

\* execute() of the manager's breaker throws 'Circuit breaker is open'.
EmbedBreakerThrowsOpen ==
  cbState = "open" /\ ~(now - lastFailureTime >= EmbedResetTicks)

\* The end of the catch block of createEmbeddingWithRetry for the caught
\* error: delay and recurse, or throw 'Failed to create embedding: ...'.
EmbedRetryOrThrow(error) ==
  embPc' = IF retryCount < EmbedMaxRetries /\ shouldRetry(error)
             THEN "backoff"
             ELSE "threw"

\* createEmbedding(text) is called while no call is running.
EmbedCall ==
  /\ embPc \in {"idle", "returned", "threw"}
  /\ embPc' = "rateLimit"
  /\ retryCount' = 0
  /\ embError' = NoEmbedError
  /\ apiCalls' = 0
  /\ apiErrors' = {}
  /\ openRejections' = 0
  /\ UNCHANGED <<now, wakeAt, cbState, failureCount, lastFailureTime>>

\* rateLimiter.acquire(1) has returned; circuitBreaker.execute() runs up to
\* the request, or throws because the breaker is open, and then the catch
\* block starts its delay(5000).
EmbedExecute ==
  /\ embPc = "rateLimit"
  /\ IF EmbedBreakerThrowsOpen
       THEN /\ embPc' = "cooldown"
            /\ embError' = OpenError
            /\ wakeAt' = now + CooldownTicks
            /\ openRejections' = openRejections + 1
            /\ UNCHANGED <<cbState, apiCalls>>
       ELSE /\ embPc' = "api"
            /\ cbState' = IF cbState = "open" THEN "half-open" ELSE cbState
            /\ apiCalls' = apiCalls + 1
            /\ UNCHANGED <<embError, wakeAt, openRejections>>
  /\ UNCHANGED <<now, retryCount, apiErrors, failureCount, lastFailureTime>>

\* The request fulfils: execute() closes a half-open breaker; the embedding
\* is returned, or a response without data is thrown into the catch block.
EmbedApiFulfils(hasData) ==
  /\ embPc = "api"
  /\ cbState' = IF cbState = "half-open" THEN "closed" ELSE cbState
  /\ failureCount' = IF cbState = "half-open" THEN 0 ELSE failureCount
  /\ IF hasData
       THEN /\ embPc' = "returned"
            /\ UNCHANGED <<embError, apiErrors>>
       ELSE /\ embError' = NoDataError
            /\ apiErrors' = apiErrors \cup {NoDataError}
            /\ EmbedRetryOrThrow(NoDataError)
  /\ UNCHANGED <<now, retryCount, wakeAt, apiCalls, openRejections, lastFailureTime>>

\* The request rejects: execute() counts the failure and re-throws it into
\* the catch block.
EmbedApiRejects(error) ==
  /\ embPc = "api"
  /\ failureCount' = failureCount + 1
  /\ lastFailureTime' = now
  /\ cbState' = IF failureCount + 1 >= EmbedFailureThreshold THEN "open" ELSE cbState
  /\ embError' = error
  /\ apiErrors' = apiErrors \cup {error}
  /\ EmbedRetryOrThrow(error)
  /\ UNCHANGED <<now, retryCount, wakeAt, apiCalls, openRejections>>

\* delay(5000) is over: the catch block goes on with the breaker's error.
EmbedCooldownOver ==
  /\ embPc = "cooldown"
  /\ now >= wakeAt
  /\ EmbedRetryOrThrow(embError)
  /\ UNCHANGED <<now, retryCount, embError, wakeAt, apiCalls, apiErrors,
                 openRejections, cbState, failureCount, lastFailureTime>>

\* delay(getRetryDelay(retryCount)) is over:
\* createEmbeddingWithRetry(text, maxRetries, retryCount + 1).
EmbedBackoffOver ==
  /\ embPc = "backoff"
  /\ embPc' = "rateLimit"
  /\ retryCount' = retryCount + 1
  /\ UNCHANGED <<now, embError, wakeAt, apiCalls, apiErrors, openRejections,
                 cbState, failureCount, lastFailureTime>>

\* 5000 ms pass.
EmbedTick ==
  /\ now < MaxEmbedTime
  /\ now' = now + 1
  /\ UNCHANGED <<embedVars, cbState, failureCount, lastFailureTime>>

EmbedIdle ==
  /\ embPc = "idle"
  /\ retryCount = 0
  /\ embError = NoEmbedError
  /\ wakeAt = 0
  /\ apiCalls = 0
  /\ apiErrors = {}
  /\ openRejections = 0

\* ------------------------------------------------------------------------
\* EmbeddingsManager.createEmbeddings, processBatchesWithConcurrency and
\* createBatchEmbeddings (embeddings.ts)
\* The texts of a call are numbered 1 .. ceTexts; the embedding of a text is
\* tagged with the text it was computed for.
\* ------------------------------------------------------------------------

\* const maxConcurrentBatches = 3
MaxConcurrentBatches == 3

EmbeddingOf(t) == [text |-> t]

\* A slot of results that was never assigned.
NoEmbeddings == [defined |-> FALSE, embeddings |-> <<>>]

BatchIndices == 0 .. (MaxTexts - 1)

\* batches.length after the splitting loop: one batch per maxBatchSize texts.
NumBatches(n, size) == (n + size - 1) \div size

\* batches[g] = texts.slice(g * maxBatchSize, g * maxBatchSize + maxBatchSize)
BatchTexts(n, size, g) ==
  [k \in 1 .. (Min(n, (g + 1) * size) - g * size) |-> g * size + k]

\* response.data.map(item => item.embedding) for a response that carries one
\* item per input.
BatchResponse(batch) == [k \in 1 .. Len(batch) |-> EmbeddingOf(batch[k])]

\* allEmbeddings.flat(): the assigned slots in index order, holes skipped.
RECURSIVE Flat(_, _)
Flat(res, g) ==
  IF g < 0 THEN <<>>
  ELSE Flat(res, g - 1) \o (IF res[g].defined THEN res[g].embeddings ELSE <<>>)

\* createEmbeddings(texts) with the batch_size setting size: the batches are
\* split and processBatchesWithConcurrency starts with empty results and
\* executing.
CeCall(n, size) ==
  /\ cePc \in {"idle", "returned", "rejected"}
  /\ cePc' = "loop"
  /\ ceTexts' = n
  /\ ceBatchSize' = size
  /\ ceI' = 0
  /\ ceResults' = [g \in BatchIndices |-> NoEmbeddings]
  /\ ceExecuting' = <<>>
  /\ ceReturn' = <<>>
  /\ grpPc' = [g \in BatchIndices |-> "unstarted"]
  /\ grpEmbeddings' = [g \in BatchIndices |-> <<>>]
  /\ grpCause' = [g \in BatchIndices |-> "none"]
  /\ grpCalls' = [g \in BatchIndices |-> <<>>]

\* One pass of the loop body up to the await: createBatchEmbeddings(batch)
\* runs up to its await this.rateLimit(), the chained promise is pushed.
CeStart ==
  /\ cePc = "loop"
  /\ ceI < NumBatches(ceTexts, ceBatchSize)
  /\ grpPc' = [grpPc EXCEPT ![ceI] = "rateLimit"]
  /\ ceExecuting' = Append(ceExecuting, ceI)
  /\ IF Len(ceExecuting') >= MaxConcurrentBatches
       THEN cePc' = "race" /\ ceI' = ceI
       ELSE cePc' = "loop" /\ ceI' = ceI + 1
  /\ UNCHANGED <<ceTexts, ceBatchSize, ceResults, ceReturn, grpEmbeddings,
                 grpCause, grpCalls>>

\* rateLimit() of batch g has returned: the batch request is sent.
GrpRequest(g) ==
  /\ grpPc[g] = "rateLimit"
  /\ grpPc' = [grpPc EXCEPT ![g] = "request"]
  /\ UNCHANGED <<cePc, ceTexts, ceBatchSize, ceI, ceResults, ceExecuting, ceReturn,
                 grpEmbeddings, grpCause, grpCalls>>

\* The request of batch g settles.  "ok": one item per text, the batch
\* fulfils and .then stores results[g].  "mismatch" (no data, or another
\* number of items: 'Batch embedding count mismatch' is thrown) and "failed"
\* (the request rejects) both enter the catch block, whose loop calls
\* createEmbedding for the first text.
GrpResponse(g, outcome) ==
  /\ grpPc[g] = "request"
  /\ IF outcome = "ok"
       THEN /\ grpPc' = [grpPc EXCEPT ![g] = "fulfilled"]
            /\ ceResults' = [ceResults EXCEPT ![g] =
                 [defined |-> TRUE,
                  embeddings |-> BatchResponse(BatchTexts(ceTexts, ceBatchSize, g))]]
            /\ UNCHANGED <<grpCause, grpCalls>>
       ELSE /\ grpPc' = [grpPc EXCEPT ![g] = "fallback"]
            /\ grpCause' = [grpCause EXCEPT ![g] = outcome]
            /\ grpCalls' = [grpCalls EXCEPT ![g] =
                 <<BatchTexts(ceTexts, ceBatchSize, g)[1]>>]
            /\ UNCHANGED ceResults
  /\ UNCHANGED <<cePc, ceTexts, ceBatchSize, ceI, ceExecuting, ceReturn, grpEmbeddings>>

\* A fallback loop that puts each embedding in front of the collected ones.
FallbackPushInFront(g, batch, embedding) ==
  /\ grpEmbeddings' = [grpEmbeddings EXCEPT ![g] = <<embedding>> \o @]
  /\ IF Len(grpEmbeddings[g]) + 1 < Len(batch)
       THEN /\ grpCalls' = [grpCalls EXCEPT ![g] =
                 Append(@, batch[Len(grpEmbeddings[g]) + 2])]
            /\ UNCHANGED <<grpPc, ceResults>>
       ELSE /\ grpPc' = [grpPc EXCEPT ![g] = "fulfilled"]
            /\ ceResults' = [ceResults EXCEPT ![g] =
                 [defined |-> TRUE, embeddings |-> <<embedding>> \o grpEmbeddings[g]]]
            /\ UNCHANGED grpCalls

\* The fallback loop of batch g after its createEmbedding call returned
\* embedding: push it, and call createEmbedding for the next text or return
\* the collected embeddings (.then stores results[g]).
FallbackPush(g, batch, embedding) ==
  /\ grpEmbeddings' = [grpEmbeddings EXCEPT ![g] = Append(@, embedding)]
  /\ IF Len(grpEmbeddings[g]) + 1 < Len(batch)
       THEN /\ grpCalls' = [grpCalls EXCEPT ![g] =
                 Append(@, batch[Len(grpEmbeddings[g]) + 2])]
            /\ UNCHANGED <<grpPc, ceResults>>
       ELSE /\ grpPc' = [grpPc EXCEPT ![g] = "fulfilled"]
            /\ ceResults' = [ceResults EXCEPT ![g] =
                 [defined |-> TRUE, embeddings |-> Append(grpEmbeddings[g], embedding)]]
            /\ UNCHANGED grpCalls

\* The createEmbedding call in flight for batch g returns.
GrpEmbedReturns(g) ==
  /\ grpPc[g] = "fallback"
  /\ FallbackPush(g, BatchTexts(ceTexts, ceBatchSize, g),
                  EmbeddingOf(grpCalls[g][Len(grpCalls[g])]))
  /\ UNCHANGED <<cePc, ceTexts, ceBatchSize, ceI, ceExecuting, ceReturn, grpCause>>

\* The createEmbedding call in flight for batch g throws: so does
\* createBatchEmbeddings, and the chained promise rejects.
GrpEmbedThrows(g) ==
  /\ grpPc[g] = "fallback"
  /\ grpPc' = [grpPc EXCEPT ![g] = "rejected"]
  /\ UNCHANGED <<cePc, ceTexts, ceBatchSize, ceI, ceResults, ceExecuting, ceReturn,
                 grpEmbeddings, grpCause, grpCalls>>

\* The fallback createEmbedding call of batch g, seen with the manager's
\* circuit breaker (createEmbeddingWithRetry): the breaker is open and throws
\* 'Circuit breaker is open'; no request is sent, and after its delay(5000)
\* the call throws.
GuardedEmbedRejectedOpen(g) ==
  /\ EmbedBreakerThrowsOpen
  /\ GrpEmbedThrows(g)
  /\ UNCHANGED <<cbState, failureCount, lastFailureTime>>

\* The breaker lets the call through and the request rejects with an error
\* that is not retried: execute() counts the failure, the call throws.
GuardedEmbedFails(g) ==
  /\ ~EmbedBreakerThrowsOpen
  /\ failureCount' = failureCount + 1
  /\ lastFailureTime' = now
  /\ cbState' = IF failureCount + 1 >= EmbedFailureThreshold THEN "open" ELSE cbState
  /\ GrpEmbedThrows(g)

\* The breaker lets the call through and the request fulfils.
GuardedEmbedReturns(g) ==
  /\ ~EmbedBreakerThrowsOpen
  /\ cbState' = "closed"
  /\ failureCount' = IF cbState = "closed" THEN failureCount ELSE 0
  /\ UNCHANGED lastFailureTime
  /\ GrpEmbedReturns(g)

\* executing.findIndex(p => results[i] !== undefined) followed by the splice:
\* the test does not look at p, so it yields 0 when batch i has stored its
\* result and -1 otherwise.
SpliceBatch(exec) ==
  IF ceResults[ceI].defined THEN Tail(exec) ELSE exec

\* await Promise.race(executing) resumes as a settled promise of executing
\* did: a rejected one makes processBatchesWithConcurrency throw.
CeRaceResume ==
  /\ cePc = "race"
  /\ \E k \in 1 .. Len(ceExecuting) :
       /\ grpPc[ceExecuting[k]] \in {"fulfilled", "rejected"}
       /\ IF grpPc[ceExecuting[k]] = "rejected"
            THEN /\ cePc' = "rejected"
                 /\ UNCHANGED <<ceI, ceExecuting>>
            ELSE /\ ceExecuting' = SpliceBatch(ceExecuting)
                 /\ ceI' = ceI + 1
                 /\ cePc' = "loop"
  /\ UNCHANGED <<ceTexts, ceBatchSize, ceResults, ceReturn, grpPc, grpEmbeddings,
                 grpCause, grpCalls>>

\* The loop ends: await Promise.all(executing).
CeLoopExit ==
  /\ cePc = "loop"
  /\ ceI >= NumBatches(ceTexts, ceBatchSize)
  /\ cePc' = "all"
  /\ UNCHANGED <<ceTexts, ceBatchSize, ceI, ceResults, ceExecuting, ceReturn, grpPc,
                 grpEmbeddings, grpCause, grpCalls>>

\* await Promise.all(executing) resumes: it rejects once a promise of
\* executing has rejected and fulfils once all have fulfilled; then
\* createEmbeddings returns allEmbeddings.flat().
CeAllResume ==
  /\ cePc = "all"
  /\ IF \E k \in 1 .. Len(ceExecuting) : grpPc[ceExecuting[k]] = "rejected"
       THEN /\ cePc' = "rejected"
            /\ UNCHANGED ceReturn
       ELSE /\ \A k \in 1 .. Len(ceExecuting) : grpPc[ceExecuting[k]] = "fulfilled"
            /\ cePc' = "returned"
            /\ ceReturn' = Flat(ceResults, MaxTexts - 1)
  /\ UNCHANGED <<ceTexts, ceBatchSize, ceI, ceResults, ceExecuting, grpPc,
                 grpEmbeddings, grpCause, grpCalls>>

BatchIdle ==
  /\ cePc = "idle"
  /\ ceTexts = 0
  /\ ceBatchSize = 1
  /\ ceI = 0
  /\ ceResults = [g \in BatchIndices |-> NoEmbeddings]
  /\ ceExecuting = <<>>
  /\ ceReturn = <<>>
  /\ grpPc = [g \in BatchIndices |-> "unstarted"]
  /\ grpEmbeddings = [g \in BatchIndices |-> <<>>]
  /\ grpCause = [g \in BatchIndices |-> "none"]
  /\ grpCalls = [g \in BatchIndices |-> <<>>]

\* ------------------------------------------------------------------------
\* WordPressClient.fetchAllPosts and fetchPagesWithConcurrency (wordpress.ts)
\* ------------------------------------------------------------------------

\* postTypes, as getPostTypesToIndex returns them.
FetchTypes == <<"post", "page">>

TypeIndices == 1 .. Len(FetchTypes)

PageNumbers == 1 .. MaxPages

\* fetchPagesWithConcurrency(postType, remainingPages, 3)
MaxConcurrentPages == 3

\* response.data of a successful request for page p of post type t: one post
\* with a title, and on every second page a post without title and content.
PagePosts(t, p) ==
  IF p % 2 = 0
    THEN <<[type |-> FetchTypes[t], page |-> p, empty |-> FALSE],
           [type |-> FetchTypes[t], page |-> p, empty |-> TRUE]>>
    ELSE <<[type |-> FetchTypes[t], page |-> p, empty |-> FALSE]>>

\* processPost(post) returns null for a post without title and content.
IsProcessed(post) == ~post.empty

\* The documents yielded for the posts of one response.
Processed(posts) == SelectSeq(posts, IsProcessed)

\* The outcomes of a request: fulfilled, or rejected with a 404, a 400, or
\* without a response (network error, timeout).
RequestOutcomes == {"ok", "404", "400", "network"}

\* The handlers of a later page's request: .then stores the posts, .catch
\* stores [] for whatever error; the chained promise always fulfils.
PageHandlers(outcome) ==
  [slot |-> IF outcome = "ok" THEN "ok" ELSE "failed", promise |-> "fulfilled"]

\* results[i] of the running fetchPagesWithConcurrency for page p: the posts
\* stored by .then, [] stored by .catch, or a hole.
PageResult(t, p) ==
  IF request[t][p] = "ok" THEN PagePosts(t, p) ELSE <<>>

\* results.filter(posts => posts && posts.length > 0), flattened through
\* processPost: the documents of pages 2 .. n whose slot holds posts.
RECURSIVE LaterDocuments(_, _)
LaterDocuments(t, n) ==
  IF n < 2 THEN <<>>
  ELSE LaterDocuments(t, n - 1) \o Processed(PageResult(t, n))

\* The for loop of fetchAllPosts moves on, the requests being req: the first
\* page of the next post type is requested, or the generator is done.
FetchNextType(req) ==
  /\ IF fType < Len(FetchTypes)
       THEN /\ fType' = fType + 1
            /\ request' = [req EXCEPT ![fType + 1][1] = "pending"]
            /\ fPc' = "first"
       ELSE /\ fPc' = "done"
            /\ request' = req
            /\ UNCHANGED fType
  /\ fI' = 0
  /\ fExecuting' = <<>>

\* fetchAllPosts() is iterated: the first page of the first post type is
\* requested.
FetchCall(pages) ==
  /\ fPc = "idle"
  /\ totalPagesOf' = pages
  /\ fType' = 1
  /\ fI' = 0
  /\ fExecuting' = <<>>
  /\ request' = [t \in TypeIndices |-> [p \in PageNumbers |->
                   IF t = 1 /\ p = 1 THEN "pending" ELSE "unsent"]]
  /\ yielded' = <<>>
  /\ fPc' = "first"

\* The first page's request settles.  Fulfilled: no posts, continue with
\* the next post type; otherwise the documents are yielded and, if the
\* x-wp-totalpages header says more than 1, fetchPagesWithConcurrency starts.
\* Rejected: the catch block logs, the next post type follows.
FetchFirstPage(outcome) ==
  /\ fPc = "first"
  /\ IF outcome # "ok"
       THEN /\ FetchNextType([request EXCEPT ![fType][1] = "failed"])
            /\ UNCHANGED yielded
       ELSE IF totalPagesOf[fType] = 0
         THEN /\ FetchNextType([request EXCEPT ![fType][1] = "ok"])
              /\ UNCHANGED yielded
         ELSE /\ yielded' = yielded \o Processed(PagePosts(fType, 1))
              /\ IF totalPagesOf[fType] > 1
                   THEN /\ fPc' = "loop"
                        /\ fI' = 0
                        /\ fExecuting' = <<>>
                        /\ request' = [request EXCEPT ![fType][1] = "ok"]
                        /\ UNCHANGED fType
                   ELSE FetchNextType([request EXCEPT ![fType][1] = "ok"])
  /\ UNCHANGED totalPagesOf

\* One pass of the loop body of fetchPagesWithConcurrency up to its first
\* await: the request for pages[i] = i + 2 is sent, its chained promise
\* pushed.
FetchStartPage ==
  /\ fPc = "loop"
  /\ fI < totalPagesOf[fType] - 1
  /\ request' = [request EXCEPT ![fType][fI + 2] = "pending"]
  /\ fExecuting' = Append(fExecuting, fI + 2)
  /\ fPc' = IF Len(fExecuting') >= MaxConcurrentPages THEN "race" ELSE "delay"
  /\ UNCHANGED <<totalPagesOf, fType, fI, yielded>>

\* The request for page p >= 2 of post type t settles; its handlers run.
FetchPageSettles(t, p, outcome) ==
  /\ p >= 2
  /\ request[t][p] = "pending"
  /\ request' = [request EXCEPT ![t][p] = PageHandlers(outcome).slot]
  /\ UNCHANGED <<fPc, totalPagesOf, fType, fI, fExecuting, yielded>>

\* await Promise.race(executing) resumes once a promise of executing has
\* settled; executing.splice(0, 1); the delay(50) starts.
FetchRaceResume ==
  /\ fPc = "race"
  /\ \E k \in 1 .. Len(fExecuting) : request[fType][fExecuting[k]] # "pending"
  /\ fExecuting' = Tail(fExecuting)
  /\ fPc' = "delay"
  /\ UNCHANGED <<totalPagesOf, fType, fI, request, yielded>>

\* await this.delay(50) resumes; i++.
FetchDelayOver ==
  /\ fPc = "delay"
  /\ fI' = fI + 1
  /\ fPc' = "loop"
  /\ UNCHANGED <<totalPagesOf, fType, fExecuting, request, yielded>>

\* The loop ends: await Promise.all(executing).
FetchLoopExit ==
  /\ fPc = "loop"
  /\ fI >= totalPagesOf[fType] - 1
  /\ fPc' = "all"
  /\ UNCHANGED <<totalPagesOf, fType, fI, fExecuting, request, yielded>>

\* await Promise.all(executing) resumes once every promise of executing has
\* settled: the filtered results are returned, their documents yielded, and
\* the next post type follows.
FetchAllResume ==
  /\ fPc = "all"
  /\ \A k \in 1 .. Len(fExecuting) : request[fType][fExecuting[k]] # "pending"
  /\ yielded' = yielded \o LaterDocuments(fType, totalPagesOf[fType])
  /\ FetchNextType(request)
  /\ UNCHANGED totalPagesOf

FetchIdle ==
  /\ fPc = "idle"
  /\ totalPagesOf = [t \in TypeIndices |-> 0]
  /\ fType = 1
  /\ fI = 0
  /\ fExecuting = <<>>
  /\ request = [t \in TypeIndices |-> [p \in PageNumbers |-> "unsent"]]
  /\ yielded = <<>>

\* ------------------------------------------------------------------------
\* Chunker.chunkContent applied to a text
\* ------------------------------------------------------------------------

Chars == {"a", " ", "."}

NoChunks == [chunks |-> <<>>, terminated |-> FALSE]

\* The text to chunk gets one more character.
ChunkWrite(ch) ==
  /\ chPc = "input"
  /\ Len(chText) < MaxContentLen
  /\ chText' = Append(chText, ch)
  /\ UNCHANGED <<chPc, chOverlap, chOut>>

\* chunkContent(content) is called; out is what the call does.
ChunkCall(out) ==
  /\ chPc = "input"
  /\ chPc' = "done"
  /\ chOut' = out
  /\ UNCHANGED <<chText, chOverlap>>

ChunkIdle ==
  /\ chPc = "input"
  /\ chText = <<>>
  /\ chOverlap = 0
  /\ chOut = NoChunks

\* ------------------------------------------------------------------------
\* createVectorId followed by clean()'s match of the id
\* ------------------------------------------------------------------------

NoPair == <<>>
NoVectorId == <<>>
NoMatch == [matched |-> FALSE, postId |-> 0]
NoPrevId == [pair |-> NoPair, id |-> NoVectorId]

\* createVectorId(postId, chunkIndex) is called; the call before it is kept.
IdCreate(postId, chunkIndex) ==
  /\ vidPc \in {"idle", "parsed"}
  /\ vidPc' = "created"
  /\ vidPrev' = IF vidPc = "parsed" THEN [pair |-> vidPair, id |-> vidId] ELSE vidPrev
  /\ vidPair' = <<postId, chunkIndex>>
  /\ vidId' = createVectorId(postId, chunkIndex)
  /\ vidParsed' = NoMatch

\* clean(): vectorId.match(vectorIdPattern), then parseInt(match[1], 10).
IdMatch ==
  /\ vidPc = "created"
  /\ vidPc' = "parsed"
  /\ vidParsed' = IF MatchesVectorIdPattern(vidId)
                    THEN [matched |-> TRUE, postId |-> ParsedPostId(vidId)]
                    ELSE NoMatch
  /\ UNCHANGED <<vidPair, vidId, vidPrev>>

IdIdle ==
  /\ vidPc = "idle"
  /\ vidPair = NoPair
  /\ vidId = NoVectorId
  /\ vidParsed = NoMatch
  /\ vidPrev = NoPrevId

\* ------------------------------------------------------------------------
\* SettingsManager (settings.ts): fetchSettings, validateSettings
\* ------------------------------------------------------------------------

\* The values a field of the settings document carries: absent (undefined or
\* null), a number, or a string.
Missing == [kind |-> "missing", n |-> 0, s |-> <<>>]
Num(n) == [kind |-> "number", n |-> n, s |-> <<>>]
Str(s) == [kind |-> "string", n |-> 0, s |-> s]

\* What parseInt returns: an integer or NaN.
NaN == [nan |-> TRUE, n |-> 0]
Number(n) == [nan |-> FALSE, n |-> n]

\* Comparisons of JavaScript numbers: every comparison with NaN is false.
Lt(a, b) == ~a.nan /\ ~b.nan /\ a.n < b.n
Gt(a, b) == ~a.nan /\ ~b.nan /\ a.n > b.n
Ge(a, b) == ~a.nan /\ ~b.nan /\ a.n >= b.n

RECURSIVE LeadingDigits(_)
LeadingDigits(s) ==
  IF s = <<>> \/ ~IsDigit(Head(s)) THEN <<>>
  ELSE <<Head(s)>> \o LeadingDigits(Tail(s))

\* parseInt(value, 10) of a field that is present: the value is turned into
\* a string, and its sign and leading digits are read; NaN when it has none.
parseIntValue(v) ==
  IF v.kind = "number" THEN Number(v.n)
  ELSE LET neg == v.s # <<>> /\ Head(v.s) = "-"
           ds == LeadingDigits(IF neg THEN Tail(v.s) ELSE v.s)
       IN  IF ds = <<>> THEN NaN
           ELSE Number(IF neg THEN 0 - parseInt(ds) ELSE parseInt(ds))

SupportedSchemaVersions == {1}
MinEmbeddingDimension == 1
MaxEmbeddingDimension == 10000
MinChunkSize == 100
MaxChunkSize == 10000

RequiredFields == {"schema_version", "embedding_dimension", "chunk_size",
                   "chunk_overlap", "pinecone_index_name"}

\* The numbers and strings the documents of the model carry in a numeric
\* field.
NumericFieldValues ==
  {Missing, Num(0 - 10), Num(0), Num(1), Num(99), Num(100), Num(500),
   Num(10000), Num(10001),
   Str(<<"5", "0", "0">>), Str(<<"1", "5", "0", "p", "x">>), Str(<<"-", "5">>),
   Str(<<"a", "b", "c">>)}

SettingsDocuments ==
  [schema_version : {Missing, Num(1), Str(<<"1">>), Num(999), Str(<<"a">>)},
   embedding_dimension : NumericFieldValues,
   chunk_size : NumericFieldValues,
   chunk_overlap : NumericFieldValues,
   pinecone_index_name : {Missing, Str(<<>>), Str(<<"i", "x">>)}]

NoDocument ==
  [schema_version |-> Missing, embedding_dimension |-> Missing,
   chunk_size |-> Missing, chunk_overlap |-> Missing,
   pinecone_index_name |-> Missing]

NoSettings == [kind |-> "none"]
SettingsError(message) == [kind |-> "error", message |-> message]

\* validateSettings(data, domain): the settings, or the error it throws.
validateSettings(data) ==
  LET schemaVersion == parseIntValue(data.schema_version)
      settings == [kind |-> "settings",
                   schema_version |-> schemaVersion,
                   embedding_dimension |-> parseIntValue(data.embedding_dimension),
                   chunk_size |-> parseIntValue(data.chunk_size),
                   chunk_overlap |-> parseIntValue(data.chunk_overlap),
                   pinecone_index_name |-> data.pinecone_index_name.s]
  IN  IF \E field \in RequiredFields : data[field] = Missing
        THEN SettingsError("Missing required setting")
      ELSE IF schemaVersion.nan \/ schemaVersion.n \notin SupportedSchemaVersions
        THEN SettingsError("Unsupported schema version")
      ELSE IF \/ Lt(settings.embedding_dimension, Number(MinEmbeddingDimension))
              \/ Gt(settings.embedding_dimension, Number(MaxEmbeddingDimension))
        THEN SettingsError("Invalid embedding_dimension")
      ELSE IF \/ Lt(settings.chunk_size, Number(MinChunkSize))
              \/ Gt(settings.chunk_size, Number(MaxChunkSize))
        THEN SettingsError("Invalid chunk_size")
      ELSE IF \/ Lt(settings.chunk_overlap, Number(0))
              \/ Ge(settings.chunk_overlap, settings.chunk_size)
        THEN SettingsError("Invalid chunk_overlap")
      ELSE IF settings.pinecone_index_name = <<>>
        THEN SettingsError("Pinecone index host and name must be configured")
      ELSE settings

\* fetchSettings() is called: the cached settings are returned, or the
\* request is sent.
SettingsCall ==
  /\ setPc \in {"idle", "returned", "thrown"}
  /\ IF cachedSettings # NoSettings
       THEN /\ setPc' = "returned"
            /\ setReturn' = cachedSettings
       ELSE /\ setPc' = "fetching"
            /\ setReturn' = NoSettings
  /\ setData' = NoDocument
  /\ UNCHANGED cachedSettings

\* await axios.get(...) fulfils with the document data.
SettingsResponse(data) ==
  /\ setPc = "fetching"
  /\ setData' = data
  /\ LET validated == validateSettings(data)
     IN  /\ setReturn' = validated
         /\ IF validated.kind = "settings"
              THEN setPc' = "returned" /\ cachedSettings' = validated
              ELSE setPc' = "thrown" /\ UNCHANGED cachedSettings

\* await axios.get(...) rejects.
SettingsRequestFails ==
  /\ setPc = "fetching"
  /\ setPc' = "thrown"
  /\ setReturn' = SettingsError("Failed to fetch settings")
  /\ UNCHANGED <<setData, cachedSettings>>

SettingsIdle ==
  /\ setPc = "idle"
  /\ setData = NoDocument
  /\ cachedSettings = NoSettings
  /\ setReturn = NoSettings

\* ------------------------------------------------------------------------
\* PineconeManager.upsertVectors (pinecone.ts)
\* ------------------------------------------------------------------------

UpsertCallers == 1 .. MaxUpsertCallers

\* retryWithBackoff(fn, 3, 1000, 30000)
UpsertMaxRetries == 3

\* The errors an upsert request rejects with: a retryable and a final one.
UpsertErrors == {[status |-> 503, code |-> ""], [status |-> 400, code |-> ""]}

\* The vectors of a call, numbered in input order.
VectorsOf(n) == [k \in 1 .. n |-> k]

\* batches[i] (i from 0): vectors.slice(i * batchSize, (i + 1) * batchSize)
UpsertBatch(vectors, g) ==
  SubSeq(vectors, g * UpsertBatchSize + 1,
         Min((g + 1) * UpsertBatchSize, Len(vectors)))

\* The vectors of a sequence of batches, in order.
RECURSIVE VectorsIn(_)
VectorsIn(batches) ==
  IF batches = <<>> THEN <<>> ELSE Head(batches) \o VectorsIn(Tail(batches))

\* batches.length
UpsertBatches(vectors) == CeilDiv(Len(vectors), UpsertBatchSize)

\* A count that goes up by one for a batch.
CountBatch(count, batch) == count + 1

\* this.upsertCount += batch.length
CountVectors(count, batch) == count + Len(batch)

\* upsertVectors(vectors) is called by caller c: an empty input returns at
\* once; otherwise the loop starts and awaits rateLimiter.acquire(1).
UpsertCall(c, n) ==
  /\ upPc[c] \in {"idle", "done", "rejected"}
  /\ upCalls < MaxUpsertCalls
  /\ upCalls' = upCalls + 1
  /\ upVectors' = [upVectors EXCEPT ![c] = VectorsOf(n)]
  /\ upI' = [upI EXCEPT ![c] = 0]
  /\ upAttempt' = [upAttempt EXCEPT ![c] = 0]
  /\ acceptedBefore' = acceptedBefore + Len(VectorsIn(upAccepted[c]))
  /\ upAccepted' = [upAccepted EXCEPT ![c] = <<>>]
  /\ upPc' = [upPc EXCEPT ![c] = IF n = 0 THEN "done" ELSE "acquiring"]
  /\ UNCHANGED upsertCount

\* await this.rateLimiter.acquire(1) resumes: retryWithBackoff invokes the
\* upsert of batches[i].
UpsertAcquired(c) ==
  /\ upPc[c] = "acquiring"
  /\ upPc' = [upPc EXCEPT ![c] = "upserting"]
  /\ upAttempt' = [upAttempt EXCEPT ![c] = 0]
  /\ UNCHANGED <<upVectors, upI, upAccepted, acceptedBefore, upsertCount, upCalls>>

\* The store accepts batches[i]: the upsert and retryWithBackoff fulfil, the
\* count goes up, and the loop goes to the next batch or ends.
UpsertFulfils(c) ==
  /\ upPc[c] = "upserting"
  /\ LET batch == UpsertBatch(upVectors[c], upI[c])
     IN  /\ upAccepted' = [upAccepted EXCEPT ![c] = Append(@, batch)]
         /\ upsertCount' = CountVectors(upsertCount, batch)
  /\ upI' = [upI EXCEPT ![c] = @ + 1]
  /\ upPc' = [upPc EXCEPT ![c] =
       IF upI[c] + 1 < UpsertBatches(upVectors[c]) THEN "acquiring" ELSE "done"]
  /\ UNCHANGED <<upVectors, upAttempt, acceptedBefore, upCalls>>

\* The upsert of batches[i] rejects: retryWithBackoff sleeps before the next
\* attempt, or throws and upsertVectors rethrows.
UpsertRejects(c, error) ==
  /\ upPc[c] = "upserting"
  /\ upPc' = [upPc EXCEPT ![c] =
       IF upAttempt[c] = UpsertMaxRetries \/ ~isRetryableError(error)
         THEN "rejected" ELSE "sleeping"]
  /\ UNCHANGED <<upVectors, upI, upAttempt, upAccepted, acceptedBefore,
                 upsertCount, upCalls>>

\* The backoff delay is over: attempt++ and the upsert is sent again.
UpsertWake(c) ==
  /\ upPc[c] = "sleeping"
  /\ upAttempt' = [upAttempt EXCEPT ![c] = @ + 1]
  /\ upPc' = [upPc EXCEPT ![c] = "upserting"]
  /\ UNCHANGED <<upVectors, upI, upAccepted, acceptedBefore, upsertCount, upCalls>>

UpsertIdle ==
  /\ upPc = [c \in UpsertCallers |-> "idle"]
  /\ upVectors = [c \in UpsertCallers |-> <<>>]
  /\ upI = [c \in UpsertCallers |-> 0]
  /\ upAttempt = [c \in UpsertCallers |-> 0]
  /\ upAccepted = [c \in UpsertCallers |-> <<>>]
  /\ acceptedBefore = 0
  /\ upsertCount = 0
  /\ upCalls = 0

\* ------------------------------------------------------------------------
\* Successful index() and clean() runs of one site between edits of its
\* posts (indexer.ts): a run is one step, the result of its awaits all
\* succeeding
\* ------------------------------------------------------------------------

RxSite == "a.example"
RxDocs == {1, 2}

MediumText == <<"a", "a", "a", " ", "a", "a", ".">>

\* The contents an edit can give a post: one, two or three chunks.
RxTexts == {ShortText, MediumText, LongText}

RxDoc(d) == [id |-> d, text |-> rxText[d]]

\* The vectors index() upserts for the posts it has fetched.
RxUpserts(seen) == UNION {DocVectors(RxDoc(d), RxSite) : d \in seen}

\* The ids listVectorIdsForDomain() returns.
RxDomainIds(stored) ==
  SetToSeq({v.id : v \in {w \in stored : KeepsDomain(w.domain, RxSite)}})

\* The content of post d is replaced.
RxEdit(d, text) ==
  /\ rxText[d] # text
  /\ rxText' = [rxText EXCEPT ![d] = text]
  /\ rxPc' = "edited"
  /\ UNCHANGED <<store, rxLive, rxDeleted>>

\* Post d is published or taken down.
RxPublish(d) ==
  /\ rxLive' = IF d \in rxLive THEN rxLive \ {d} ELSE rxLive \cup {d}
  /\ rxPc' = "edited"
  /\ UNCHANGED <<store, rxText, rxDeleted>>

\* index() returns success = true: fetchAllPosts() yielded the posts seen
\* (all published posts when no page request failed), each was chunked,
\* embedded and upserted.
RxIndex(seen) ==
  /\ store' = upsertVectors(store, RxUpserts(seen))
  /\ rxPc' = IF seen = rxLive THEN "indexed" ELSE "edited"
  /\ UNCHANGED <<rxText, rxLive, rxDeleted>>

\* clean() returns: fetchAllPosts() yielded the posts seen, the ids of the
\* domain were listed, and the vectors of the posts not seen were deleted.
RxClean(seen) ==
  /\ \E gone \in {SeqToSet(VectorIdsToDelete(RxDomainIds(store), seen))} :
       /\ store' = {v \in store : v.id \notin gone}
       /\ rxDeleted' = {v \in store : v.id \in gone}
  /\ rxPc' = IF rxPc \in {"indexed", "cleaned"} THEN "cleaned" ELSE rxPc
  /\ UNCHANGED <<rxText, rxLive>>

ReindexIdle ==
  /\ rxPc = "idle"
  /\ rxText = [d \in RxDocs |-> LongText]
  /\ rxLive = RxDocs
  /\ rxDeleted = {}

LateIdle == IdIdle /\ SettingsIdle /\ UpsertIdle /\ ReindexIdle

ExtIdle == BatchIdle /\ FetchIdle /\ ChunkIdle /\ LateIdle

UtilIdle == now = 0 /\ BreakerIdle /\ LimiterIdle /\ RetryIdle /\ EmbedIdle /\ ExtIdle

\* ------------------------------------------------------------------------
\* Specification of one processWithConcurrency call, for every items.length,
\* every concurrency and every completion order of the processors.
\* ------------------------------------------------------------------------

PwcInit == PwcIdle /\ store = {} /\ IndexIdle /\ SourceUnchanged /\ CleanIdle /\ UtilIdle

CallPwc ==
  /\ pwcPc = "idle"
  /\ \E n \in 0 .. MaxItems, c \in 1 .. MaxConcurrency : PwcCall(n, c)
  /\ UNCHANGED notPwc

StartProcessor == PwcStart /\ UNCHANGED notPwc

SettleProcessor ==
  /\ \E k \in Indices, outcome \in Outcomes : PwcSettle(k, outcome)
  /\ UNCHANGED notPwc

RaceResume == PwcRaceResume /\ UNCHANGED notPwc

LoopExit == PwcLoopExit /\ UNCHANGED notPwc

AllResume == PwcAllResume /\ UNCHANGED notPwc

PwcNext ==
  \/ CallPwc
  \/ StartProcessor
  \/ SettleProcessor
  \/ RaceResume
  \/ LoopExit
  \/ AllResume

SpecPwc == PwcInit /\ [][PwcNext]_vars

\* ------------------------------------------------------------------------
\* Specification of sequences of index() calls on the Indexers of the sites,
\* which share one vector store index and namespace.
\* ------------------------------------------------------------------------

IndexInit == PwcIdle /\ store = {} /\ IndexIdle /\ SourceUnchanged /\ CleanIdle /\ UtilIdle

CallIndex ==
  /\ \E s \in Sites, c \in 0 .. MaxConfigConcurrency : IndexCall(s, c)
  /\ UNCHANGED notIndex

LoadSettings == (\E ok \in BOOLEAN : IndexSettings(ok)) /\ UNCHANGED notIndex

InitializeStore == (\E ok \in BOOLEAN : IndexInitialize(ok)) /\ UNCHANGED notIndex

FetchPosts == (\E failure \in FetchFailures : IndexFetch(failure)) /\ UNCHANGED notIndex

StartDocument == IndexStartProcessor

SettleDocument ==
  /\ \E k \in Indices, failure \in DocFailures : IndexSettleProcessor(k, failure)
  /\ UNCHANGED notIndex

DocumentRaceResume == IndexRaceResume /\ UNCHANGED notIndex

DocumentLoopExit == IndexLoopExit

DocumentsProcessed == IndexProcessed /\ UNCHANGED notIndex

FinalStats == (\E ok \in BOOLEAN : IndexStats(ok)) /\ UNCHANGED notIndex

IndexNext ==
  \/ CallIndex
  \/ LoadSettings
  \/ InitializeStore
  \/ FetchPosts
  \/ StartDocument
  \/ SettleDocument
  \/ DocumentRaceResume
  \/ DocumentLoopExit
  \/ DocumentsProcessed
  \/ FinalStats

SpecIndex == IndexInit /\ [][IndexNext]_vars

\* ------------------------------------------------------------------------
\* Specification of one clean() or deleteAll() call of a site, on a store
\* that earlier index() runs of the two sites and other writers of the
\* namespace have filled, after posts of the site were unpublished.
\* ------------------------------------------------------------------------

\* A vector another writer of the namespace stored under the domain of a
\* site, whose id is not of the indexer's format, and one stored without
\* metadata.
ForeignVectors ==
  { [id |-> <<"d", "o", "c", "-", "5", "-", "c", "h", "u", "n", "k", "-", "0">>,
     domain |-> "a.example", post_id |-> 5, chunk_index |-> 0],
    [id |-> <<"p", "o", "s", "t", "-", "7", "-", "c", "h", "u", "n", "k", "-", "0">>,
     domain |-> NoMetadata, post_id |-> 7, chunk_index |-> 0] }

\* Every vector an index() run of a site can have stored.
IndexedVectors ==
  UNION {UNION {DocVectors(Catalogue(s)[k], s) : k \in 1 .. Len(Catalogue(s))} : s \in Sites}

\* The stores the namespace can hold: ids are unique.
Stores ==
  {S \in SUBSET (IndexedVectors \cup ForeignVectors) :
     \A v, w \in S : v.id = w.id => v = w}

CleanInit ==
  /\ PwcIdle
  /\ IndexIdle
  /\ UtilIdle
  /\ store \in Stores
  /\ published \in {[s \in Sites |-> IF s = "a.example" THEN P ELSE {1}] :
                      P \in SUBSET {1, 2, 5}}
  /\ cleanPc = "idle"
  /\ cleanOp = "clean"
  /\ cleanSite = ""
  /\ cleanDeleted \in BOOLEAN
  /\ wpPostIds = {}
  /\ paginationToken = 0
  /\ pageIds = <<>>
  /\ vectorIds = <<>>
  /\ toDelete = <<>>
  /\ deleted = {}
  /\ passed = {}
  /\ store0 = {}

CallClean ==
  /\ \E op \in {"clean", "deleteAll"}, s \in Sites : CleanCall(op, s)
  /\ UNCHANGED notClean

CleanLoadSettings == (\E ok \in BOOLEAN : CleanSettings(ok)) /\ UNCHANGED notClean

CleanInitializeStore == (\E ok \in BOOLEAN : CleanInitialize(ok)) /\ UNCHANGED notClean

CleanFetchPosts == (\E failure \in FetchFailures : CleanFetch(failure)) /\ UNCHANGED notClean

CleanGetStats == (\E ok \in BOOLEAN : CleanStats(ok)) /\ UNCHANGED notClean

ListPage == (\E ok \in BOOLEAN : CleanList(ok)) /\ UNCHANGED notClean

FetchPage == (\E ok \in BOOLEAN : CleanFetchMeta(ok)) /\ UNCHANGED notClean

DeleteBatch == (\E ok \in BOOLEAN : CleanDeleteBatch(ok)) /\ UNCHANGED notClean

StatsAfterDelete == (\E ok \in BOOLEAN : CleanStatsAfter(ok)) /\ UNCHANGED notClean

CleanNext ==
  \/ CallClean
  \/ CleanLoadSettings
  \/ CleanInitializeStore
  \/ CleanFetchPosts
  \/ CleanGetStats
  \/ ListPage
  \/ FetchPage
  \/ DeleteBatch
  \/ StatsAfterDelete

SpecClean == CleanInit /\ [][CleanNext]_vars

\* ------------------------------------------------------------------------
\* Specification of one CircuitBreaker used by MaxCallers concurrent callers
\* ------------------------------------------------------------------------

BreakerInit ==
  /\ PwcIdle
  /\ store = {}
  /\ IndexIdle
  /\ SourceUnchanged
  /\ CleanIdle
  /\ UtilIdle

Execute == (\E c \in Callers : BreakerExecute(c)) /\ UNCHANGED notBreaker

Settle == (\E c \in Callers, ok \in BOOLEAN : BreakerSettle(c, ok)) /\ UNCHANGED notBreaker

Reset == BreakerReset /\ UNCHANGED notBreaker

BreakerTick == Tick /\ UNCHANGED <<breakerVars, notBreaker>>

BreakerNext ==
  \/ Execute
  \/ Settle
  \/ Reset
  \/ BreakerTick

SpecBreaker == BreakerInit /\ [][BreakerNext]_vars

\* ------------------------------------------------------------------------
\* Specification of one RateLimiter used by MaxCallers concurrent callers
\* ------------------------------------------------------------------------

LimiterInit ==
  /\ PwcIdle
  /\ store = {}
  /\ IndexIdle
  /\ SourceUnchanged
  /\ CleanIdle
  /\ UtilIdle

Acquire ==
  /\ \E c \in Callers, n \in 0 .. MaxTokensNeeded : LimiterAcquire(c, n)
  /\ UNCHANGED notLimiter

Wake == (\E c \in Callers : LimiterWake(c)) /\ UNCHANGED notLimiter

LimiterTick == now < MaxLimiterTime /\ Tick /\ UNCHANGED <<limiterVars, notLimiter>>

LimiterNext ==
  \/ Acquire
  \/ Wake
  \/ LimiterTick

SpecLimiter == LimiterInit /\ [][LimiterNext]_vars

\* ------------------------------------------------------------------------
\* Specification of one RateLimiter under a clock that never stops: time
\* passes again and again, and a timer of delay() that is due fires (the
\* event loop runs every due timer). The callers are free to call or not.
\* ------------------------------------------------------------------------

ClockAdvances == LimiterClock /\ UNCHANGED notLimiter

TimerFires(c) == LimiterWake(c) /\ UNCHANGED notLimiter

\* The two callers that use the limiter: one can wait while the other calls.
FairCallers == {1, 2}

FairAcquire ==
  /\ \E c \in FairCallers, n \in 0 .. MaxTokensNeeded : LimiterAcquire(c, n)
  /\ UNCHANGED notLimiter

FairWake == \E c \in FairCallers : TimerFires(c)

LimiterFairNext ==
  \/ FairAcquire
  \/ FairWake
  \/ ClockAdvances

SpecLimiterFair ==
  /\ LimiterInit
  /\ [][LimiterFairNext]_vars
  /\ WF_vars(ClockAdvances)
  /\ \A c \in Callers : WF_vars(TimerFires(c))

\* ------------------------------------------------------------------------
\* Specification of one retryWithBackoff call
\* ------------------------------------------------------------------------

RetryInit ==
  /\ PwcIdle
  /\ store = {}
  /\ IndexIdle
  /\ SourceUnchanged
  /\ CleanIdle
  /\ UtilIdle

CallRetry == (\E m \in 0 .. MaxMaxRetries : RetryCall(m)) /\ UNCHANGED notRetry

FnFulfils == (\E v \in Values : RetryFnFulfils(v)) /\ UNCHANGED notRetry

FnRejects == (\E error \in ErrorsThrown : RetryFnRejects(error)) /\ UNCHANGED notRetry

BackoffOver == RetryWake /\ UNCHANGED notRetry

RetryNext ==
  \/ CallRetry
  \/ FnFulfils
  \/ FnRejects
  \/ BackoffOver

SpecRetry == RetryInit /\ [][RetryNext]_vars

\* ------------------------------------------------------------------------
\* Specification of one EmbeddingsManager serving createEmbedding calls one
\* after the other
\* ------------------------------------------------------------------------

EmbedInit ==
  /\ PwcIdle
  /\ store = {}
  /\ IndexIdle
  /\ SourceUnchanged
  /\ CleanIdle
  /\ UtilIdle

CreateEmbedding == EmbedCall /\ UNCHANGED notEmbed

ExecuteRequest == EmbedExecute /\ UNCHANGED notEmbed

ApiFulfils == (\E hasData \in BOOLEAN : EmbedApiFulfils(hasData)) /\ UNCHANGED notEmbed

ApiRejects == (\E error \in ApiErrors : EmbedApiRejects(error)) /\ UNCHANGED notEmbed

CooldownOver == EmbedCooldownOver /\ UNCHANGED notEmbed

RetryDelayOver == EmbedBackoffOver /\ UNCHANGED notEmbed

TimePasses == EmbedTick /\ UNCHANGED notEmbed

EmbedNext ==
  \/ CreateEmbedding
  \/ ExecuteRequest
  \/ ApiFulfils
  \/ ApiRejects
  \/ CooldownOver
  \/ RetryDelayOver
  \/ TimePasses

SpecEmbed == EmbedInit /\ [][EmbedNext]_vars

\* ------------------------------------------------------------------------
\* Specification of createEmbeddings calls on one EmbeddingsManager
\* ------------------------------------------------------------------------

BatchInit ==
  /\ PwcIdle
  /\ store = {}
  /\ IndexIdle
  /\ SourceUnchanged
  /\ CleanIdle
  /\ UtilIdle

CreateEmbeddings ==
  (\E n \in 0 .. MaxTexts, size \in 1 .. MaxBatchSize : CeCall(n, size))
    /\ UNCHANGED notBatch

StartBatch == CeStart /\ UNCHANGED notBatch

SendBatchRequest == (\E g \in BatchIndices : GrpRequest(g)) /\ UNCHANGED notBatch

BatchResponds ==
  (\E g \in BatchIndices, outcome \in {"ok", "mismatch", "failed"} :
      GrpResponse(g, outcome)) /\ UNCHANGED notBatch

SingleEmbeddingReturns == (\E g \in BatchIndices : GrpEmbedReturns(g)) /\ UNCHANGED notBatch

SingleEmbeddingThrows == (\E g \in BatchIndices : GrpEmbedThrows(g)) /\ UNCHANGED notBatch

BatchRaceResume == CeRaceResume /\ UNCHANGED notBatch

BatchLoopExit == CeLoopExit /\ UNCHANGED notBatch

BatchAllResume == CeAllResume /\ UNCHANGED notBatch

BatchNext ==
  \/ CreateEmbeddings
  \/ StartBatch
  \/ SendBatchRequest
  \/ BatchResponds
  \/ SingleEmbeddingReturns
  \/ SingleEmbeddingThrows
  \/ BatchRaceResume
  \/ BatchLoopExit
  \/ BatchAllResume

SpecBatch == BatchInit /\ [][BatchNext]_vars

\* ------------------------------------------------------------------------
\* Specification of createEmbeddings() called any number of times on one
\* EmbeddingsManager, with the circuit breaker its createEmbedding calls go
\* through; the clock stands still, so an open breaker stays open
\* ------------------------------------------------------------------------

notGuarded == <<notUtil, now, call, admitted, blocked, failureStreak, limiterVars,
                retryVars, embedVars, fetchVars, chunkVars, lateVars>>

SingleRejectedOpen ==
  (\E g \in BatchIndices : GuardedEmbedRejectedOpen(g)) /\ UNCHANGED notGuarded

SingleFails ==
  (\E g \in BatchIndices : GuardedEmbedFails(g)) /\ UNCHANGED notGuarded

SingleReturns ==
  (\E g \in BatchIndices : GuardedEmbedReturns(g)) /\ UNCHANGED notGuarded

GuardedNext ==
  \/ CreateEmbeddings
  \/ StartBatch
  \/ SendBatchRequest
  \/ BatchResponds
  \/ SingleRejectedOpen
  \/ SingleFails
  \/ SingleReturns
  \/ BatchRaceResume
  \/ BatchLoopExit
  \/ BatchAllResume

SpecGuarded == BatchInit /\ [][GuardedNext]_vars

\* ------------------------------------------------------------------------
\* Specification of fetchAllPosts() iterated to its end
\* ------------------------------------------------------------------------

FetchInit ==
  /\ PwcIdle
  /\ store = {}
  /\ IndexIdle
  /\ SourceUnchanged
  /\ CleanIdle
  /\ UtilIdle

IterateFetchAllPosts ==
  (\E pages \in [TypeIndices -> 0 .. MaxPages] : FetchCall(pages)) /\ UNCHANGED notFetch

FirstPageSettles ==
  (\E outcome \in RequestOutcomes : FetchFirstPage(outcome)) /\ UNCHANGED notFetch

StartPage == FetchStartPage /\ UNCHANGED notFetch

PageSettles ==
  (\E t \in TypeIndices, p \in PageNumbers, outcome \in RequestOutcomes :
      FetchPageSettles(t, p, outcome)) /\ UNCHANGED notFetch

PagesRaceResume == FetchRaceResume /\ UNCHANGED notFetch

PagesDelayOver == FetchDelayOver /\ UNCHANGED notFetch

PagesLoopExit == FetchLoopExit /\ UNCHANGED notFetch

PagesAllResume == FetchAllResume /\ UNCHANGED notFetch

FetchNext ==
  \/ IterateFetchAllPosts
  \/ FirstPageSettles
  \/ StartPage
  \/ PageSettles
  \/ PagesRaceResume
  \/ PagesDelayOver
  \/ PagesLoopExit
  \/ PagesAllResume

SpecFetch == FetchInit /\ [][FetchNext]_vars

\* ------------------------------------------------------------------------
\* Specification of chunkContent applied to every text of at most
\* MaxContentLen characters under chunk_size = ChunkSize and every
\* chunk_overlap below it
\* ------------------------------------------------------------------------

ChunkInit ==
  /\ PwcIdle
  /\ store = {}
  /\ IndexIdle
  /\ SourceUnchanged
  /\ CleanIdle
  /\ now = 0 /\ BreakerIdle /\ LimiterIdle /\ RetryIdle /\ EmbedIdle
  /\ BatchIdle
  /\ FetchIdle
  /\ chPc = "input"
  /\ chText = <<>>
  /\ chOverlap \in 0 .. (ChunkSize - 1)
  /\ chOut = NoChunks
  /\ LateIdle

WriteText == (\E ch \in Chars : ChunkWrite(ch)) /\ UNCHANGED notChunk

ChunkTheText ==
  (\E out \in {runChunkContent(chText, ChunkSize, chOverlap)} : ChunkCall(out))
    /\ UNCHANGED notChunk

ChunkNext ==
  \/ WriteText
  \/ ChunkTheText

SpecChunk == ChunkInit /\ [][ChunkNext]_vars

\* ------------------------------------------------------------------------
\* Specification of createVectorId and clean()'s match applied to every
\* post id up to MaxPostId and every chunk index up to MaxChunkIndex
\* ------------------------------------------------------------------------

IdInit ==
  /\ PwcIdle
  /\ store = {}
  /\ IndexIdle
  /\ SourceUnchanged
  /\ CleanIdle
  /\ UtilIdle

CreateVectorId ==
  (\E postId \in 0 .. MaxPostId, chunkIndex \in 0 .. MaxChunkIndex :
     IdCreate(postId, chunkIndex)) /\ UNCHANGED notId

MatchVectorId == IdMatch /\ UNCHANGED notId

IdNext ==
  \/ CreateVectorId
  \/ MatchVectorId

SpecId == IdInit /\ [][IdNext]_vars

\* ------------------------------------------------------------------------
\* Specification of one SettingsManager whose settings source answers with
\* any document of SettingsDocuments
\* ------------------------------------------------------------------------

SettingsInit ==
  /\ PwcIdle
  /\ store = {}
  /\ IndexIdle
  /\ SourceUnchanged
  /\ CleanIdle
  /\ UtilIdle

FetchSettings == SettingsCall /\ UNCHANGED notSettings

SettingsResponds ==
  /\ setPc = "fetching"
  /\ \E data \in SettingsDocuments : SettingsResponse(data)
  /\ UNCHANGED notSettings

SettingsRequestRejects == SettingsRequestFails /\ UNCHANGED notSettings

SettingsNext ==
  \/ FetchSettings
  \/ SettingsResponds
  \/ SettingsRequestRejects

SpecSettings == SettingsInit /\ [][SettingsNext]_vars

\* ------------------------------------------------------------------------
\* Specification of one PineconeManager whose upsertVectors is called by
\* MaxUpsertCallers concurrent callers, MaxUpsertCalls times in all
\* ------------------------------------------------------------------------

UpsertInit ==
  /\ PwcIdle
  /\ store = {}
  /\ IndexIdle
  /\ SourceUnchanged
  /\ CleanIdle
  /\ UtilIdle

UpsertVectors ==
  (\E c \in UpsertCallers, n \in 0 .. MaxVectors : UpsertCall(c, n))
    /\ UNCHANGED notUpsert

RateLimiterGrants == (\E c \in UpsertCallers : UpsertAcquired(c)) /\ UNCHANGED notUpsert

StoreAccepts == (\E c \in UpsertCallers : UpsertFulfils(c)) /\ UNCHANGED notUpsert

StoreRejects ==
  (\E c \in UpsertCallers, error \in UpsertErrors : UpsertRejects(c, error))
    /\ UNCHANGED notUpsert

UpsertBackoffOver == (\E c \in UpsertCallers : UpsertWake(c)) /\ UNCHANGED notUpsert

UpsertNext ==
  \/ UpsertVectors
  \/ RateLimiterGrants
  \/ StoreAccepts
  \/ StoreRejects
  \/ UpsertBackoffOver

SpecUpsert == UpsertInit /\ [][UpsertNext]_vars

\* ------------------------------------------------------------------------
\* Specification of index() and clean() runs of one site whose posts are
\* edited, published and taken down between the runs
\* ------------------------------------------------------------------------

ReindexInit ==
  /\ PwcIdle
  /\ store = {}
  /\ IndexIdle
  /\ SourceUnchanged
  /\ CleanIdle
  /\ UtilIdle

EditPost ==
  (\E d \in RxDocs, text \in RxTexts : RxEdit(d, text)) /\ UNCHANGED notReindex

PublishPost == (\E d \in RxDocs : RxPublish(d)) /\ UNCHANGED notReindex

IndexRun == (\E seen \in SUBSET rxLive : RxIndex(seen)) /\ UNCHANGED notReindex

CleanRun == (\E seen \in SUBSET rxLive : RxClean(seen)) /\ UNCHANGED notReindex

ReindexNext ==
  \/ EditPost
  \/ PublishPost
  \/ IndexRun
  \/ CleanRun

SpecReindex == ReindexInit /\ [][ReindexNext]_vars

\* ------------------------------------------------------------------------
\* Claims about processWithConcurrency (checked under SpecPwc)
\* ------------------------------------------------------------------------

\* C1: at every moment the number of processor invocations that have been
\* started and have not yet settled is at most concurrency.
C1_InFlightAtMostConcurrency ==
  pwcPc # "idle" => InFlight <= concurrency

\* C2: when the promise returned by processWithConcurrency resolves, every
\* item's processor has settled and every slot 0..items.length-1 of the
\* result array is filled.
C2_ResolvedMeansAllSettledAndFilled ==
  pwcPc = "returned" =>
    \A k \in 0 .. (items - 1) :
       /\ processor[k] \in {"fulfilled", "rejected"}
       /\ results[k] # Undefined

\* C3: a rejecting processor never makes processWithConcurrency reject and
\* never prevents the processor of another item from being invoked (at the
\* return every processor has been invoked); the rejection is recorded in the
\* rejecting item's own slot.
C3_RejectionIsIsolated ==
  /\ pwcPc # "rejected"
  /\ pwcPc = "returned" => \A k \in 0 .. (items - 1) : processor[k] # "unstarted"
  /\ \A k \in Indices :
       processor[k] = "rejected" =>
         /\ results[k].status = "rejected"
         /\ results[k].reason \in Reasons
  /\ \A k \in Indices :
       results[k].status = "rejected" => processor[k] = "rejected"

\* C3's case: the call has returned, one processor rejected and a processor
\* of a later item was invoked after it and fulfilled.
C3_Witness ==
  /\ pwcPc = "returned"
  /\ \E k, j \in 0 .. (items - 1) :
       /\ k < j
       /\ processor[k] = "rejected"
       /\ results[k] = Rejected("err")
       /\ processor[j] = "fulfilled"

\* ------------------------------------------------------------------------
\* Claims about index() (checked under SpecIndex)
\* ------------------------------------------------------------------------

\* C4: if index() returns success = true, the vectors of all chunks of every
\* document the fetcher yielded are in the store when it returns, and no
\* document is still being processed or was left unprocessed.
C4_SuccessMeansAllUpserted ==
  (idxPc = "returned" /\ result.returned /\ result.success) =>
    \A k \in 1 .. Len(allPosts) :
       /\ processor[k - 1] \in {"fulfilled", "rejected"}
       /\ DocVectors(allPosts[k], site) \subseteq store

\* C7: index() for one domain never overwrites, replaces or removes a vector
\* stored for another domain.
C7_NoCrossDomainOverwrite ==
  [][\A v \in store : v.domain # site' => v \in store']_vars

\* C9: of two consecutive index() calls of one site that yield the same
\* documents and both return success = true, the second has upserted the
\* same set of vector ids as the first, and the store holds the same set of
\* ids when the second returns as when the first returned.
C9_ReindexSameIds ==
  ( /\ idxPc = "returned"
    /\ runs = 2
    /\ lastRun.site = prevRun.site
    /\ lastRun.posts = prevRun.posts
    /\ lastRun.success
    /\ prevRun.success ) =>
      /\ lastRun.upserted = prevRun.upserted
      /\ lastRun.ids = prevRun.ids

FatalEntries(errs) == {k \in 1 .. Len(errs) : errs[k].kind = "fatal"}

\* C10: an exception in any phase makes index() resolve with success = false
\* and exactly one 'Fatal error:' entry; when the settings fetch failed, that
\* entry is the only one and every progress counter of the result is zero.
C10_FatalResult ==
  idxPc = "returned" =>
    /\ lastRun.fatalIn # "none" =>
         /\ result.returned
         /\ ~result.success
         /\ Cardinality(FatalEntries(result.errors)) = 1
    /\ lastRun.fatalIn = "settings" =>
         /\ result.errors = <<FatalEntry>>
         /\ result.stats = ZeroProgress

\* The entries of errs that carry the post_id of doc.
PostEntries(errs, doc) == {k \in 1 .. Len(errs) : errs[k] = PostEntry(doc)}

\* C11: when index() has returned without a fatal error, every fetched
\* document was handed to the processor, success = true exactly when the
\* processing of no document failed, and each failed document has one error
\* entry carrying its post_id.
C11_DocumentFailuresAreIsolated ==
  (idxPc = "returned" /\ lastRun.fatalIn = "none") =>
    /\ \A k \in 1 .. Len(allPosts) : processor[k - 1] # "unstarted"
    /\ result.success <=> \A k \in 1 .. Len(allPosts) : processor[k - 1] # "rejected"
    /\ \A k \in 1 .. Len(allPosts) :
         processor[k - 1] = "rejected" =>
           Cardinality(PostEntries(result.errors, allPosts[k])) = 1

\* C12: after the first index() call of an Indexer returns without a fatal
\* error, processedPosts + errors = totalPosts.
C12_EveryPostCountedOnce ==
  (idxPc = "returned" /\ runs = 1 /\ lastRun.fatalIn = "none") =>
    result.stats.processedPosts + result.stats.errors = result.stats.totalPosts

\* ------------------------------------------------------------------------
\* Claims about clean() and deleteAll() (checked under SpecClean)
\* ------------------------------------------------------------------------

\* The ids of the documents that exist at the content source of site s.
LiveIds(s) == {d.id : d \in SeqToSet(Source(s))}

\* The stored vectors of the domain of the call, as the store held them when
\* the call began.
DomainVectors == {v \in store0 : v.domain = cleanSite}

\* The fetch of this clean() yielded what a fetch without a failed request
\* yields.
AllFetchesSucceeded ==
  wpPostIds = {d.id : d \in SeqToSet(fetchAllPosts(cleanSite, NoFetchFailure))}

CleanResolved == cleanOp = "clean" /\ cleanPc = "done" /\ cleanDeleted

C6_CleanKeepsPublished ==
  cleanOp = "clean" =>
    \A v \in deleted :
      ~(/\ v.domain = cleanSite
        /\ MatchesVectorIdPattern(v.id)
        /\ ParsedPostId(v.id) \in LiveIds(cleanSite))

\* listVectorIdsForDomain() has returned to its caller.
ListingReturned ==
  \/ cleanPc \in {"delete", "statsAfter"}
  \/ cleanPc = "done" /\ (cleanOp = "deleteAll" \/ cleanDeleted)

\* C8: no id handed to deleteMany belongs to a vector whose metadata.domain
\* differs from the current domain, and the list listVectorIdsForDomain()
\* returns holds, once each, exactly the ids over all pages of the vectors
\* whose metadata.domain is the current domain.
C8_DeleteStaysInDomain ==
  /\ passed \subseteq Ids(DomainVectors)
  /\ \A v \in deleted : v.domain = cleanSite
  /\ ListingReturned =>
       /\ SeqToSet(vectorIds) = Ids(DomainVectors)
       /\ Len(vectorIds) = Cardinality(Ids(DomainVectors))

\* deleteAll() has deleted vectors of its domain that were listed on more
\* than one page of a namespace that also holds vectors of the other domain
\* and a vector without metadata.
C8_Witness ==
  /\ cleanOp = "deleteAll"
  /\ cleanPc = "statsAfter"
  /\ passed # {}
  /\ Cardinality(store0) > ListLimit
  /\ \E v \in store0 : v.domain = NoMetadata
  /\ \E v \in store0 : v.domain \notin {cleanSite, NoMetadata}
  /\ \E k \in 1 .. Len(vectorIds) :
       listPaginated(store0, 0).next # 0
         /\ vectorIds[k] \notin SeqToSet(listPaginated(store0, 0).vectors)

\* ------------------------------------------------------------------------
\* Claims about CircuitBreaker (checked under SpecBreaker)
\* ------------------------------------------------------------------------

\* C13: while the failure counter is at the threshold and less than
\* resetTimeout has passed since the last recorded failure, the breaker is
\* open, and every execute() call that arrives then is rejected with 'Circuit
\* breaker is open' without its operation being invoked.
C13_OpenBreakerRejects ==
  /\ (failureCount >= FailureThreshold /\ now - lastFailureTime < ResetTimeout)
       => cbState = "open"
  /\ \A c \in Callers :
       blocked[c] => call[c] = "rejectedOpen" /\ admitted[c] = "none"

\* A call arrived after the breaker had opened, some time but less than
\* resetTimeout after the last failure, and was rejected.
C13_Witness ==
  \E c \in Callers :
    /\ blocked[c]
    /\ call[c] = "rejectedOpen"
    /\ cbState = "open"
    /\ now > lastFailureTime
    /\ failureCount = FailureThreshold

\* C14: while the call that moved the breaker to half-open is in flight, no
\* other call that arrives has its operation invoked.
C14_HalfOpenAdmitsOne ==
  \A c, d \in Callers :
    (c # d /\ cbState = "half-open" /\ admitted[c] = "probe" /\ call[c] = "running")
      => ~(admitted[d] = "half-open" /\ call[d] = "running")

\* C15: when the call admitted in the half-open state settles with no other
\* call in flight and the breaker still half-open, a success closes the
\* breaker and zeroes the failure counter, a failure opens it and restarts
\* the timer at that failure; and while the breaker is open and its timer
\* has not run out no call has its operation invoked.
C15_ProbeOutcome ==
  [][ /\ \A c \in Callers :
           ( /\ admitted[c] = "probe"
             /\ call[c] = "running"
             /\ cbState = "half-open"
             /\ \A d \in Callers \ {c} : call[d] # "running"
             /\ call'[c] # "running" ) =>
               /\ call'[c] = "returned" => cbState' = "closed" /\ failureCount' = 0
               /\ call'[c] = "threw" => cbState' = "open" /\ lastFailureTime' = now
      /\ (cbState = "open" /\ now - lastFailureTime < ResetTimeout) =>
           \A d \in Callers : call[d] # "running" => call'[d] # "running"
    ]_vars

\* The probe failed some time after the breaker had opened, and a call that
\* arrived after that failure was rejected.
C15_Witness ==
  \E c, d \in Callers :
    /\ c # d
    /\ admitted[c] = "probe"
    /\ call[c] = "threw"
    /\ cbState = "open"
    /\ lastFailureTime >= ResetTimeout
    /\ blocked[d]
    /\ call[d] = "rejectedOpen"

\* ------------------------------------------------------------------------
\* Claims about RateLimiter (checked under SpecLimiter)
\* ------------------------------------------------------------------------

\* C16: in every state 0 <= tokens <= capacity.
C16_TokensWithinBucket == 0 <= tokens /\ tokens <= Capacity

\* After a refill a caller has taken the last tokens of the bucket while
\* another caller waits for more than are left.
C16_Witness ==
  /\ tokens = 0
  /\ lastRefill > 0
  /\ grants[lastRefill] > 0
  /\ \E c, d \in Callers :
       /\ acq[c].pc = "waiting" /\ acq[c].n > 0
       /\ acq[d].pc = "granted"

RECURSIVE GrantedBetween(_, _)
GrantedBetween(a, b) == IF a > b THEN 0 ELSE grants[a] + GrantedBetween(a + 1, b)

\* C17: the tokens granted in any interval of T ticks are at most
\* capacity + refillRate * T.
C17_ThroughputBound ==
  \A a \in 0 .. MaxLimiterTime : \A b \in a .. MaxLimiterTime :
    GrantedBetween(a, b) <= Capacity + RefillPerTick * (b - a)

\* An interval in which the bound is met exactly: a full bucket and all its
\* refill were granted.
C17_Witness ==
  \E a \in 0 .. MaxLimiterTime : \E b \in (a + 1) .. MaxLimiterTime :
    GrantedBetween(a, b) = Capacity + RefillPerTick * (b - a)


\* ------------------------------------------------------------------------
\* Claims about retryWithBackoff (checked under SpecRetry)
\* ------------------------------------------------------------------------

\* The errors C18 takes for non-retryable: a status other than 429 and below
\* 500, or no status and no network reset/timeout code.
C18_NonRetryableAsClaimed(error) ==
  IF error.status # 0
    THEN error.status # 429 /\ error.status < 500
    ELSE error.code \notin {"ECONNRESET", "ETIMEDOUT"}

\* The same with the host-lookup code ENOTFOUND counted among the network
\* codes.
C18_NonRetryableAmended(error) ==
  IF error.status # 0
    THEN error.status # 429 /\ error.status < 500
    ELSE error.code \notin {"ECONNRESET", "ETIMEDOUT", "ENOTFOUND"}

\* What is common to both readings of C18: fn is invoked at most
\* maxRetries + 1 times, a fulfilled fn ends the call with fn's value, a
\* thrown error is the last error of fn, and fn is never invoked once the
\* call has returned or thrown.
C18_Stops ==
  /\ invocations <= maxRetries + 1
  /\ retryPc = "returned" => retryOutcome.kind = "value"
  /\ retryPc = "threw" => retryOutcome.kind = "error" /\ retryOutcome.error = lastError
  /\ retryPc \in {"calling", "sleeping"} => retryOutcome.kind = "none"

\* C18 as stated: when fn has failed and is going to be invoked again, its
\* error was retryable in the claim's sense and invocations remain; when the
\* call has thrown, fn's error was non-retryable in the claim's sense or fn
\* has been invoked maxRetries + 1 times.
C18_AsStated ==
  /\ C18_Stops
  /\ retryPc = "sleeping" =>
       ~C18_NonRetryableAsClaimed(lastError) /\ invocations <= maxRetries
  /\ retryPc = "threw" =>
       C18_NonRetryableAsClaimed(lastError) \/ invocations = maxRetries + 1

\* C18 (amended): retryWithBackoff invokes fn until fn succeeds (its value is
\* returned), fn fails with a non-retryable error (a status other than 429 and
\* below 500, or no status and none of the codes ECONNRESET, ETIMEDOUT,
\* ENOTFOUND; re-thrown at once), or fn has been invoked maxRetries + 1 times
\* (the last error is re-thrown); fn is invoked at most maxRetries + 1 times.
C18_RetryUntilDone ==
  /\ C18_Stops
  /\ retryPc = "sleeping" =>
       ~C18_NonRetryableAmended(lastError) /\ invocations <= maxRetries
  /\ retryPc = "threw" =>
       C18_NonRetryableAmended(lastError) \/ invocations = maxRetries + 1

\* A call that retried twice and then re-threw a client error before the
\* budget of three retries was used.
C18_Witness ==
  /\ retryPc = "threw"
  /\ maxRetries = 3
  /\ invocations = 3
  /\ lastError.status = 404

\* ------------------------------------------------------------------------
\* Claims about EmbeddingsManager.createEmbedding (checked under SpecEmbed)
\* ------------------------------------------------------------------------

\* The failures C19 calls retryable: 429, a status of 500 or more, connection
\* reset or timeout.
C19_Retryable(error) ==
  /\ error.message = "api"
  /\ \/ error.status = 429
     \/ error.status >= 500
     \/ error.status = 0 /\ error.code \in {"ECONNRESET", "ETIMEDOUT"}

\* C19 as stated: whatever calls the manager served before, a createEmbedding
\* call whose requests to the API fail k <= 3 times with retryable errors and
\* then succeed returns the embedding after exactly k + 1 requests. So a call
\* never gives up while all its requests so far, at most 3, failed with
\* retryable errors, and a call that returns after retryable failures only
\* has sent at most 4 requests, the last one the success.
C19_AsStated ==
  /\ embPc = "threw" =>
       ~(apiCalls <= 3 /\ \A e \in apiErrors : C19_Retryable(e))
  /\ embPc = "returned" /\ (\A e \in apiErrors : C19_Retryable(e)) =>
       apiCalls >= 1 /\ apiCalls <= 4

\* C19 (amended): the same for every createEmbedding call of which the
\* manager's circuit breaker rejects no attempt, whatever calls the manager
\* served before.
C19_ReturnsUnlessRejected ==
  /\ embPc = "threw" /\ openRejections = 0 =>
       ~(apiCalls <= 3 /\ \A e \in apiErrors : C19_Retryable(e))
  /\ embPc = "returned" /\ (\A e \in apiErrors : C19_Retryable(e)) =>
       apiCalls >= 1 /\ apiCalls <= 4

\* On a manager whose breaker has counted a failure of an earlier call, a
\* call returns the embedding with its fourth request, after three retryable
\* failures.
C19_Witness ==
  /\ embPc = "returned"
  /\ apiCalls = 4
  /\ apiErrors # {}
  /\ \A e \in apiErrors : C19_Retryable(e)
  /\ failureCount = 4
  /\ cbState = "closed"

\* C20: an attempt rejected by the open breaker is followed, after the
\* cooldown, by one more attempt. So createEmbedding never fails with the
\* breaker's error after a single rejected attempt.
C20_OpenRejectionRetried ==
  embPc = "threw" /\ embError = OpenError => openRejections >= 2

\* ------------------------------------------------------------------------
\* Claims about createEmbeddings (checked under SpecBatch)
\* ------------------------------------------------------------------------

\* C21: createEmbeddings(texts) resolves only when every batch has completed,
\* with exactly texts.length vectors, the i-th being the embedding of
\* texts[i].
C21_ResolvesWithAllEmbeddings ==
  cePc = "returned" =>
    /\ \A g \in 0 .. (NumBatches(ceTexts, ceBatchSize) - 1) : grpPc[g] = "fulfilled"
    /\ Len(ceReturn) = ceTexts
    /\ \A t \in 1 .. ceTexts : ceReturn[t] = EmbeddingOf(t)

RECURSIVE DocumentsOfPages(_, _)
DocumentsOfPages(t, n) ==
  IF n < 1 THEN <<>>
  ELSE DocumentsOfPages(t, n - 1) \o Processed(PagePosts(t, n))

\* The documents of post types 1 .. t, post types in configured order.
RECURSIVE DocumentsOfTypes(_)
DocumentsOfTypes(t) ==
  IF t < 1 THEN <<>>
  ELSE DocumentsOfTypes(t - 1) \o DocumentsOfPages(t, totalPagesOf[t])

NoRequestFailed(t) == \A p \in PageNumbers : request[t][p] # "failed"

IsOfType(t, doc) == doc.type = FetchTypes[t]

YieldedOfType(t) == SelectSeq(yielded, LAMBDA doc : IsOfType(t, doc))

\* C23: when every page request succeeds, fetchAllPosts() yields every
\* document with a title or body of every page of every post type exactly
\* once, pages in order within a post type, post types in configured order.
C23_YieldsEveryDocumentInOrder ==
  fPc = "done" /\ (\A t \in TypeIndices : NoRequestFailed(t)) =>
    yielded = DocumentsOfTypes(Len(FetchTypes))

\* C24: while pages 2 .. totalPages of a post type are fetched, at most 3
\* page requests are in flight.
C24_AtMostThreeRequestsInFlight ==
  fPc \in {"loop", "race", "delay", "all"} =>
    Cardinality({p \in PageNumbers : p >= 2 /\ request[fType][p] = "pending"}) <= 3

\* C25: a failed request for a post type does not end the iteration: the
\* documents yielded before stay yielded, and every post type that follows
\* one with a failed request is still fetched (the iteration ends with its
\* first page requested) and, its own requests succeeding, its documents are
\* yielded.
C25_FailuresAreSwallowed ==
  /\ [](fPc = "done" =>
          \A t \in TypeIndices :
            (\E u \in 1 .. (t - 1) : ~NoRequestFailed(u)) =>
              /\ request[t][1] \in {"ok", "failed"}
              /\ NoRequestFailed(t) =>
                   YieldedOfType(t) = DocumentsOfPages(t, totalPagesOf[t]))
  /\ [][/\ Len(yielded') >= Len(yielded)
        /\ SubSeq(yielded', 1, Len(yielded)) = yielded]_vars

\* ------------------------------------------------------------------------
\* Claims about chunkContent (checked under SpecChunk)
\* ------------------------------------------------------------------------

\* C26: chunkContent(text) terminates for every text and every setting pair
\* with 0 <= chunk_overlap < chunk_size.
C26_ChunkContentTerminates ==
  chPc = "done" => chOut.terminated

\* C27: with 0 <= chunk_overlap < chunk_size the chunks have strictly
\* increasing start positions in the normalized text, and the spans of two
\* consecutive chunks overlap by at most chunk_overlap characters.
C27_StartsIncreaseOverlapBounded ==
  chPc = "done" =>
    \A k \in 1 .. (Len(chOut.chunks) - 1) :
      /\ chOut.chunks[k].start < chOut.chunks[k + 1].start
      /\ chOut.chunks[k].end - chOut.chunks[k + 1].start <= chOverlap



\* C28: the vector id scheme is reversible and injective: the id that
\* createVectorId(p, c) builds is matched by clean()'s pattern and parses
\* back to p, and the ids of two different pairs (p, c) differ.
C28_IdReversibleAndInjective ==
  /\ vidPc = "parsed" => vidParsed.matched /\ vidParsed.postId = vidPair[1]
  /\ (vidPc # "idle" /\ vidPrev.pair # NoPair /\ vidPrev.pair # vidPair)
        => vidPrev.id # vidId

\* The ids of (1, 10) and of (11, 0), which carry the same digits, were built
\* one after the other and both parsed.
C28_Witness ==
  /\ vidPc = "parsed"
  /\ vidPrev.pair = <<1, 10>>
  /\ vidPair = <<11, 0>>
  /\ vidParsed = [matched |-> TRUE, postId |-> 11]

\* A returned number lies between two bounds.
InRange(x, low, high) == ~x.nan /\ low <= x.n /\ x.n <= high

\* C29: every settings object fetchSettings() returns has
\* 0 <= chunk_overlap < chunk_size, 100 <= chunk_size <= 10000 and
\* 1 <= embedding_dimension <= 10000, whatever the document carries.
C29_ReturnedSettingsInRange ==
  setPc = "returned" =>
    /\ InRange(setReturn.chunk_size, MinChunkSize, MaxChunkSize)
    /\ InRange(setReturn.embedding_dimension,
               MinEmbeddingDimension, MaxEmbeddingDimension)
    /\ InRange(setReturn.chunk_overlap, 0, MaxChunkSize)
    /\ ~setReturn.chunk_size.nan => setReturn.chunk_overlap.n < setReturn.chunk_size.n

\* The vectors in the batches the store accepted from the current call of c.
AcceptedOf(c) == VectorsIn(upAccepted[c])

RECURSIVE AcceptedInCalls(_)
AcceptedInCalls(n) ==
  IF n = 0 THEN 0 ELSE AcceptedInCalls(n - 1) + Len(AcceptedOf(n))

\* C30: at every point getUpsertCount() is the number of vectors in the
\* batches the store has accepted so far, each batch of at most
\* UpsertBatchSize vectors taken in input order, over every interleaving of
\* concurrent calls, calls with empty input and calls that reject part-way.
C30_CountIsAcceptedVectors ==
  /\ upsertCount = acceptedBefore + AcceptedInCalls(MaxUpsertCallers)
  /\ \A c \in UpsertCallers :
       /\ \A g \in 1 .. Len(upAccepted[c]) :
            /\ Len(upAccepted[c][g]) \in 1 .. UpsertBatchSize
            /\ g < Len(upAccepted[c]) => Len(upAccepted[c][g]) = UpsertBatchSize
       /\ AcceptedOf(c) = SubSeq(upVectors[c], 1, Len(AcceptedOf(c)))
       /\ upPc[c] = "done" => AcceptedOf(c) = upVectors[c]

\* Two calls ran concurrently: one rejected after its first batch was
\* accepted, the other is between its batches.
C30_Witness ==
  /\ upPc[1] = "rejected" /\ Len(upAccepted[1]) = 1 /\ Len(upVectors[1]) = MaxVectors
  /\ upPc[2] = "acquiring" /\ Len(upAccepted[2]) = 1
  /\ upCalls = MaxUpsertCalls
  /\ upsertCount = 2 * UpsertBatchSize

\* C31: a closed breaker opens only after failureThreshold consecutive
\* failures: when it goes from closed to open, the last failureThreshold
\* completed calls all failed.
C31_OpensAfterConsecutiveFailures ==
  [][(cbState = "closed" /\ cbState' = "open")
       => failureStreak' >= FailureThreshold]_vars

\* C39: the breaker goes from half-open to closed only by reset() or when a
\* call that was admitted while it was half-open succeeds; the success of a
\* call admitted while it was closed leaves a half-open breaker half-open.
C39_OnlyProbeSuccessCloses ==
  [][(cbState = "half-open" /\ cbState' = "closed") =>
       \/ \E c \in Callers :
            /\ call[c] = "running" /\ call'[c] = "returned"
            /\ admitted[c] \in {"probe", "half-open"}
       \/ call' = call
    ]_vars

\* C32: while the manager's breaker is open and its resetTimeout has not
\* elapsed, createEmbeddings() issues no request to the embedding API: no
\* batch request is sent in such a state.
C32_NoRequestWhileOpen ==
  [][(cbState = "open" /\ now - lastFailureTime < EmbedResetTicks) =>
       \A g \in BatchIndices : grpPc'[g] = "request" => grpPc[g] = "request"
    ]_vars

\* C33: every chunk chunkContent returns has non-empty text, for every input
\* text, the empty string and whitespace-only text included.
C33_ChunksHaveText ==
  chPc = "done" =>
    \A k \in 1 .. Len(chOut.chunks) : chOut.chunks[k].text # <<>>

\* C34: after a chunk that starts at p and ends at e before the end of the
\* text, the next chunk starts at e - chunk_overlap whenever that is after p.
C34_NextStartsOverlapBeforeEnd ==
  chPc = "done" =>
    \A k \in 1 .. (Len(chOut.chunks) - 1) :
      ( /\ chOut.chunks[k].end < Len(Normalize(chText))
        /\ chOut.chunks[k].end - chOverlap > chOut.chunks[k].start )
        => chOut.chunks[k + 1].start = chOut.chunks[k].end - chOverlap

\* C37: for a text longer than chunk_size the chunk spans cover the
\* normalized text without gaps: the first chunk starts at 0, each later
\* chunk starts at or before the end of the one before, and the last chunk
\* ends at the end of the text.
C37_SpansCoverText ==
  (chPc = "done" /\ Len(Normalize(chText)) > ChunkSize) =>
    /\ chOut.terminated
    /\ Len(chOut.chunks) > 0
    /\ chOut.chunks[1].start = 0
    /\ \A k \in 1 .. (Len(chOut.chunks) - 1) :
         chOut.chunks[k + 1].start <= chOut.chunks[k].end
    /\ chOut.chunks[Len(chOut.chunks)].end = Len(Normalize(chText))

\* C35: the stats of every result index() returns count only the documents
\* of that run: processedPosts + errors <= totalPosts, whatever runs the
\* Indexer made before.
C35_StatsCountOnlyThisRun ==
  idxPc = "returned" =>
    result.stats.processedPosts + result.stats.errors <= result.stats.totalPosts

\* C36: once the settings were loaded and the store was initialized, no
\* later failure of the vector store or of the embedding puts a 'Fatal
\* error' entry in the result of index().
C36_LateFailuresAreNotFatal ==
  (idxPc = "returned" /\ lastRun.fatalIn \notin {"settings", "initialize"}) =>
    FatalEntries(result.errors) = {}

\* C36 as amended: once the settings were loaded and the store was
\* initialized, no later vector-store or embedding failure in the processing
\* of a document puts a 'Fatal error' entry in the result: the only fatal
\* entry such a run can return is that of a failed pinecone.getStats(), and
\* every other entry carries the post_id of a document whose processing
\* failed.
C36_DocumentFailuresAreNotFatal ==
  (idxPc = "returned" /\ lastRun.fatalIn \notin {"settings", "initialize"}) =>
    \A k \in 1 .. Len(result.errors) :
      IF result.errors[k].kind = "fatal"
        THEN lastRun.fatalIn = "stats" /\ k = Len(result.errors)
        ELSE \E j \in 1 .. Len(allPosts) :
               /\ result.errors[k] = PostEntry(allPosts[j])
               /\ processor[j - 1] = "rejected"

\* The processing of one document failed in the embedding and that of
\* another in the upsert; index() returned the two document entries and no
\* fatal one.
C36_Witness ==
  /\ idxPc = "returned"
  /\ lastRun.fatalIn = "none"
  /\ Len(result.errors) = 2
  /\ FatalEntries(result.errors) = {}
  /\ \E j, k \in 1 .. Len(allPosts) :
       /\ results[j - 1] = Rejected("embedding")
       /\ results[k - 1] = Rejected("upsert")

\* The vectors of the site's domain in the store.
RxStored == {v \in store : v.domain = RxSite}

RxChunkCount(d) == Len(chunkContent(rxText[d], ChunkSize, ChunkOverlap))

AcquireWaits(c) == acq[c].pc = "waiting" /\ acq[c].n <= Capacity

\* A step in which acquire() is called: the bucket is refilled at the
\* current instant and no delayed caller moves.
AcquireCalled ==
  /\ now' = now
  /\ lastRefill' = now
  /\ \A c \in Callers : acq[c].pc = "waiting" => acq'[c] = acq[c]

\* C40: under an advancing clock every acquire(n) call with n <= capacity
\* eventually returns: no caller waits forever.
C40_EveryAcquireReturns ==
  \A c \in FairCallers : AcquireWaits(c) ~> (acq[c].pc = "granted")

\* C40 as amended: under an advancing clock, when from some time on no
\* further acquire() call is made, every acquire(n) call with n <= capacity
\* eventually returns.
C40_AcquireReturnsOnceCallsCease ==
  (<>[][~AcquireCalled]_vars) =>
    \A c \in FairCallers : AcquireWaits(c) ~> (acq[c].pc = "granted")

\* A caller is in its delay, for tokens another caller took at this
\* instant; its timer is due and the refilled bucket holds what it asked
\* for, so its next pass returns.
C40_Witness ==
  \E c, d \in Callers :
    /\ c # d
    /\ AcquireWaits(c)
    /\ acq[d].pc = "granted"
    /\ lastRefill < now
    /\ now >= acq[c].wakeAt
    /\ Refilled >= acq[c].n
    /\ acq[c].n > 0

====
